---- MODULE Spec2Model ----
(***************************************************************************)
(* Git activity analytics engine (report.git.commits, report.utils.stats). *)
(* The operations are pure functions of a repository world (file system    *)
(* layout, commit logs, configured user name) and of their arguments.  The *)
(* state holds that world, the last call made and what it returned or      *)
(* raised.  Strings whose characters matter are sequences of one-character *)
(* strings; path components are atomic names.                              *)
(***************************************************************************)
EXTENDS Integers, Sequences, FiniteSets, TLC

VARIABLES world, op, args, result

vars == <<world, op, args, result>>

\* ------------------------------------------------------------------ bounds
\* longest commit log of a repository read by the multi-repository call
MaxMultiLog == 2
\* longest commit log of the repository read by get_commits_detailed
MaxLog == 2
\* longest commit log of the repository read by get_commit_stats
MaxStatsLog == 3
\* longest list of repository paths handed to the multi-repository call
MaxPaths == 2

\* --------------------------------------------------------------- sequences
RECURSIVE SeqsUpTo(_, _)
\* all sequences over S of length at most n
SeqsUpTo(S, n) ==
    IF n = 0 THEN {<<>>}
    ELSE LET shorter == SeqsUpTo(S, n - 1)
         IN  shorter \cup {Append(s, x) : s \in {t \in shorter : Len(t) = n - 1}, x \in S}

Range(s) == {s[i] : i \in DOMAIN s}

Injective(s) == \A i, j \in DOMAIN s : s[i] = s[j] => i = j

RECURSIVE Repeat(_, _)
\* the character c, n times
Repeat(c, n) == IF n = 0 THEN <<>> ELSE <<c>> \o Repeat(c, n - 1)

\* ----------------------------------------------------------------- strings
\* Python's None where a string is expected
NoneStr == <<"<None>">>

\* str.isspace() on one character
Whitespace == {" ", "\t", "\n", "\r"}

\* bytes that are not valid UTF-8 and are dropped by decode(errors="ignore")
InvalidBytes == {"<ff>"}

UpperChars ==
    <<"A", "B", "C", "D", "E", "F", "G", "H", "I", "J", "K", "L", "M", "N", "O", "P",
    "Q", "R", "S", "T", "U", "V", "W", "X", "Y", "Z">>
LowerChars ==
    <<"a", "b", "c", "d", "e", "f", "g", "h", "i", "j", "k", "l", "m", "n", "o", "p",
    "q", "r", "s", "t", "u", "v", "w", "x", "y", "z">>

\* str.lower() on one character
LowerChar(c) ==
    IF \E i \in DOMAIN UpperChars : UpperChars[i] = c
    THEN LowerChars[CHOOSE i \in DOMAIN UpperChars : UpperChars[i] = c]
    ELSE c

\* str.lower()
Lower(s) == [i \in DOMAIN s |-> LowerChar(s[i])]

\* sub in s  (substring test)
Contains(s, sub) ==
    \E i \in 0..(Len(s) - Len(sub)) :
        \A j \in 1..Len(sub) : s[i + j] = sub[j]

\* s.startswith(prefix)
StartsWith(s, prefix) ==
    /\ Len(prefix) <= Len(s)
    /\ \A j \in 1..Len(prefix) : s[j] = prefix[j]

\* str.strip(): drop leading and trailing whitespace
Strip(s) ==
    LET keep == {i \in DOMAIN s : s[i] \notin Whitespace}
    IN  IF keep = {} THEN <<>>
        ELSE LET lo == CHOOSE i \in keep : \A j \in keep : i <= j
                 hi == CHOOSE i \in keep : \A j \in keep : j <= i
             IN  SubSeq(s, lo, hi)

\* s.split("\n")[0]: everything before the first line feed
FirstLine(s) ==
    LET nl == {i \in DOMAIN s : s[i] = "\n"}
    IN  IF nl = {} THEN s
        ELSE SubSeq(s, 1, (CHOOSE i \in nl : \A j \in nl : i <= j) - 1)

RECURSIVE Split(_)
\* s.split("\n"): the lines of s, at least one
Split(s) ==
    LET nl == {i \in DOMAIN s : s[i] = "\n"}
    IN  IF nl = {} THEN <<s>>
        ELSE LET k == CHOOSE i \in nl : \A j \in nl : i <= j
             IN  <<SubSeq(s, 1, k - 1)>> \o Split(SubSeq(s, k + 1, Len(s)))

\* bytes.decode("utf-8", errors="ignore")
Decode(b) == SelectSeq(b, LAMBDA ch : ch \notin InvalidBytes)

\* code-point order of the characters dates and author names are made of
CodePoints ==
    <<"\t", " ", "#", "-", "0", "1", "2", "3", "4", "5", "6", "7", "8", "9", ":">>
    \o UpperChars \o LowerChars

Ord(c) == CHOOSE i \in DOMAIN CodePoints : CodePoints[i] = c

\* a < b on str: lexicographic by code point, a proper prefix is smaller
StrLess(a, b) ==
    \E k \in 1..Len(b) :
        /\ \A j \in 1..(k - 1) : j <= Len(a) /\ a[j] = b[j]
        /\ \/ k = Len(a) + 1
           \/ k <= Len(a) /\ Ord(a[k]) < Ord(b[k])

\* -------------------------------------------------------------- exceptions
NoExc == "none"

Ok(v) == [exc |-> NoExc, val |-> v]

Raise(kind) == [exc |-> kind, val |-> <<>>]

\* the classes an exception is an instance of (git.exc, builtins)
Bases(kind) ==
    CASE kind = "RuntimeError" -> {"RuntimeError", "Exception"}
      [] kind = "InvalidGitRepositoryError" ->
             {"InvalidGitRepositoryError", "GitError", "Exception"}
      [] kind = "NoSuchPathError" ->
             {"NoSuchPathError", "GitError", "OSError", "Exception"}
      [] kind = "GitCommandError" -> {"GitCommandError", "GitError", "Exception"}
      [] kind = "ValueError" -> {"ValueError", "Exception"}
      [] kind = "NoOptionError" -> {"NoOptionError", "Exception"}
      [] OTHER -> {"Exception"}

\* except (classes...) catches an exception of this kind
Catches(classes, kind) == Bases(kind) \cap classes # {}

\* ------------------------------------------------------------------- paths
\* a path is [abs, parts]: "proj/" is [abs |-> FALSE, parts |-> <<"proj", "">>]
Path(isAbs, parts) == [abs |-> isAbs, parts |-> parts]

\* os.getcwd()
Cwd == <<"home", "dev">>

RECURSIVE NormParts(_, _)
\* os.path.normpath over the components of an absolute path
NormParts(comps, acc) ==
    IF comps = <<>> THEN acc
    ELSE LET comp == Head(comps)
         IN  IF comp \in {"", "."} THEN NormParts(Tail(comps), acc)
             ELSE IF comp # ".." THEN NormParts(Tail(comps), Append(acc, comp))
             ELSE IF acc # <<>> THEN NormParts(Tail(comps), SubSeq(acc, 1, Len(acc) - 1))
             ELSE NormParts(Tail(comps), acc)

\* os.path.abspath: join with the working directory, then normalise
Abspath(p) == NormParts(IF p.abs THEN p.parts ELSE Cwd \o p.parts, <<>>)

\* os.path.basename of a normalised absolute path ("" for the root)
Basename(absParts) == IF absParts = <<>> THEN "" ELSE absParts[Len(absParts)]

\* ------------------------------------------------------------- file system
ProjA == <<"home", "dev", "proj">>
ProjB == <<"srv", "proj">>
LibC == <<"home", "dev", "lib">>
BadRepo == <<"srv", "bad">>

\* the directories that exist
Dirs ==
    { <<>>, <<"home">>, <<"home", "dev">>, ProjA, ProjA \o <<"src">>, LibC,
      <<"home", "dev", "tmp">>, <<"srv">>, ProjB, BadRepo }

\* the directories that hold a .git
RepoRoots == {ProjA, ProjB, LibC, BadRepo}

\* repositories whose object store cannot be read: git log fails
Corrupt == {BadRepo}

\* repositories whose log is part of the world
Logged == RepoRoots \ Corrupt

IsPrefix(a, b) == Len(a) <= Len(b) /\ SubSeq(b, 1, Len(a)) = a

\* git.Repo(path, search_parent_directories=True): the enclosing repository
Repo(repo_path) ==
    LET epath == Abspath(repo_path)
        roots == {r \in RepoRoots : IsPrefix(r, epath)}
    IN  IF epath \notin Dirs THEN Raise("NoSuchPathError")
        ELSE IF roots = {} THEN Raise("InvalidGitRepositoryError")
        ELSE Ok(CHOOSE r \in roots : \A q \in roots : Len(q) <= Len(r))

\* ----------------------------------------------------------- commit records
\* commit.author is an Actor [name, email] or absent
NoActor == [name |-> NoneStr, email |-> NoneStr, present |-> FALSE]

Actor(name, email) == [name |-> name, email |-> email, present |-> TRUE]

\* a diff entry of parent.diff(commit, create_patch=True)
DiffEntry(a, b, isBytes, text) ==
    [a_path |-> a, b_path |-> b, bytes |-> isBytes, diff |-> text]

\* the outcome of parent.diff(commit) and of the scan of its entries:
\* fails = "none": the entries are scanned to the end;
\* fails = "open": the diff itself raises, there are no entries;
\* fails = "text": reading the patch text of the last entry raises, after
\*                 the paths of that entry were read
Diffs(fails, entries) == [fails |-> fails, entries |-> entries]

NoDiffs == Diffs("none", <<>>)

Commit(hexsha, author, isBytes, message, epoch, tz, parents, diffs) ==
    [hexsha |-> hexsha, author |-> author, bytes |-> isBytes, message |-> message,
     epoch |-> epoch, tz |-> tz, parents |-> parents, diffs |-> diffs]

\* datetime | None: no bound
NoneTime == 0 - 1

\* truthiness of a str | None value
Truthy(s) == s # NoneStr /\ s # <<>>

\* "Name <email>", the header git matches --author against
Ident(a) ==
    IF ~a.present THEN <<>>
    ELSE (IF a.name = NoneStr THEN <<>> ELSE a.name) \o <<" ", "<">>
         \o (IF a.email = NoneStr THEN <<>> ELSE a.email) \o <<">">>

\* repo.iter_commits(since, until, no_merges=True, author=...): git log of
\* the non-merge commits committed inside the window, newest first as logged
iter_commits(repo, since, until, author) ==
    IF repo \in Corrupt THEN Raise("GitCommandError")
    ELSE IF world.log[repo] = <<>> THEN Raise("ValueError")
    ELSE Ok(SelectSeq(world.log[repo],
                LAMBDA c : /\ c.parents < 2
                           /\ (since = NoneTime \/ since <= c.epoch)
                           /\ (until = NoneTime \/ c.epoch <= until)
                           /\ (author = NoneStr \/ Contains(Ident(c.author), author))))

\* repo.config_reader().get_value("user", "name")
NoValue == <<"<unset>">>
IntValue == <<"<int>">>

get_value_user_name ==
    IF world.user = NoValue THEN Raise("NoOptionError") ELSE Ok(world.user)

\* ------------------------------------------------------------------- dates
Digits == <<"0", "1", "2", "3", "4", "5", "6", "7", "8", "9">>

\* %02d
TwoDigits(n) == <<Digits[(n \div 10) + 1], Digits[(n % 10) + 1]>>

\* epoch 0 is 2024-01-01 00:00:00 UTC; all instants used stay inside January
\* committed_datetime.strftime("%Y-%m-%d %H:%M"): wall clock at the commit's
\* own UTC offset (tz in minutes), seconds dropped
Strftime(epoch, tz) ==
    LET minutes == (epoch + tz * 60) \div 60
        day == (minutes \div 1440) + 1
        hh == (minutes % 1440) \div 60
        mm == minutes % 60
    IN  <<"2", "0", "2", "4", "-", "0", "1", "-">> \o TwoDigits(day) \o <<" ">>
        \o TwoDigits(hh) \o <<":">> \o TwoDigits(mm)

\* --------------------------------------------------- report.git.commits
HashLen == 7

Me == <<"m", "e">>

Unknown == <<"U", "n", "k", "n", "o", "w", "n">>

\* class CommitInfo(NamedTuple)
CommitInfo(hash, author, date, message, repo) ==
    [hash |-> hash, author |-> author, date |-> date, message |-> message, repo |-> repo]

\* variant: the configured name is compared ignoring letter case
FilterMeIgnoringCase(all_commits) ==
    LET git_user == get_value_user_name
    IN  IF git_user.exc # NoExc THEN all_commits
        ELSE SelectSeq(all_commits,
                 LAMBDA c : c.author.present /\ Lower(c.author.name) = Lower(git_user.val))

\* `if author:` branch of get_commits_detailed, "me" keyword:
\* keep the commits whose author name equals the configured user name
FilterMe(all_commits) ==
    LET git_user == get_value_user_name
    IN  IF git_user.exc # NoExc THEN all_commits
        ELSE SelectSeq(all_commits,
                 LAMBDA c : c.author.present /\ c.author.name = git_user.val)

\* variant: the fragment is searched as written, without lower-casing
NameMatchesExactCase(c, author) ==
    /\ c.author.present
    /\ Truthy(c.author.name)
    /\ Contains(c.author.name, author)

\* author_lower in c.author.name.lower()
NameMatches(c, author) ==
    /\ c.author.present
    /\ Truthy(c.author.name)
    /\ Contains(Lower(c.author.name), Lower(author))

\* the author filter of get_commits_detailed
FilterByAuthor(all_commits, author) ==
    IF ~Truthy(author) THEN all_commits
    ELSE IF Lower(author) = Me THEN FilterMe(all_commits)
    ELSE SelectSeq(all_commits, LAMBDA c : NameMatches(c, author))

\* raw.decode("utf-8", errors="ignore").strip() or raw.strip()
StrippedMessage(c) == Strip(IF c.bytes THEN Decode(c.message) ELSE c.message)

\* c.author.name if c.author and c.author.name else "Unknown"
AuthorName(c) ==
    IF c.author.present /\ Truthy(c.author.name) THEN c.author.name ELSE Unknown

\* the CommitInfo built for a commit whose stripped message is not empty
MakeCommitInfo(c) ==
    CommitInfo(SubSeq(c.hexsha, 1, HashLen), AuthorName(c), Strftime(c.epoch, c.tz),
               FirstLine(StrippedMessage(c)), ".")

RECURSIVE BuildCommitList(_)
\* for c in all_commits: if msg: commit_list.append(...)
BuildCommitList(all_commits) ==
    IF all_commits = <<>> THEN <<>>
    ELSE LET c == Head(all_commits)
         IN  (IF StrippedMessage(c) # <<>> THEN <<MakeCommitInfo(c)>> ELSE <<>>)
             \o BuildCommitList(Tail(all_commits))

\* variant: the library's error is passed on untranslated
OpenRepoUntranslated(repo_path) == Repo(repo_path)

\* try: Repo(...) except InvalidGitRepositoryError: raise RuntimeError
OpenRepo(repo_path) ==
    LET opened == Repo(repo_path)
    IN  IF Catches({"InvalidGitRepositoryError"}, opened.exc)
        THEN Raise("RuntimeError")
        ELSE opened

get_commits_detailed(repo_path, since, until, author) ==
    LET repo == OpenRepo(repo_path)
    IN  IF repo.exc # NoExc THEN repo
        ELSE LET logged == iter_commits(repo.val, since, until, NoneStr)
             IN  IF logged.exc # NoExc THEN logged
                 ELSE Ok(BuildCommitList(FilterByAuthor(logged.val, author)))

get_commits(repo_path, since, until, author) ==
    LET commits_info == get_commits_detailed(repo_path, since, until, author)
    IN  IF commits_info.exc # NoExc THEN commits_info
        ELSE Ok([i \in DOMAIN commits_info.val |-> commits_info.val[i].message])

RECURSIVE SortedStrings(_)
\* sorted(list(set_of_strings))
SortedStrings(S) ==
    IF S = {} THEN <<>>
    ELSE LET least == CHOOSE x \in S : \A y \in S : ~StrLess(y, x)
         IN  <<least>> \o SortedStrings(S \ {least})

get_all_authors(repo_path, since, until) ==
    LET repo == OpenRepo(repo_path)
    IN  IF repo.exc # NoExc THEN repo
        ELSE LET commits == iter_commits(repo.val, since, until, NoneStr)
             IN  IF commits.exc # NoExc THEN commits
                 ELSE Ok(SortedStrings(
                          {c.author.name : c \in
                              {d \in Range(commits.val) :
                                  d.author.present /\ Truthy(d.author.name)}}))

\* variant: the base name of the path as written, not made absolute
RepoNameAsWritten(repo_path) ==
    IF repo_path.parts = <<>> THEN "" ELSE repo_path.parts[Len(repo_path.parts)]

\* os.path.basename(os.path.abspath(repo_path))
RepoName(repo_path) == Basename(Abspath(repo_path))

\* variant: the commits keep the default repository name
WithRepoDefault(commits, repo_name) == commits

\* the CommitInfo copies carrying the repository name
WithRepo(commits, repo_name) ==
    [i \in DOMAIN commits |->
        CommitInfo(commits[i].hash, commits[i].author, commits[i].date,
                   commits[i].message, repo_name)]

\* the exception classes the loop over repo_paths catches
SkippedErrors == {"RuntimeError", "InvalidGitRepositoryError", "GitError", "OSError"}

RECURSIVE CollectRepos(_, _, _, _, _)
\* for repo_path in repo_paths: try ... except (...): continue
CollectRepos(repo_paths, since, until, author, all_commits) ==
    IF repo_paths = <<>> THEN Ok(all_commits)
    ELSE LET repo_path == Head(repo_paths)
             commits == get_commits_detailed(repo_path, since, until, author)
         IN  IF commits.exc = NoExc
             THEN CollectRepos(Tail(repo_paths), since, until, author,
                               all_commits \o WithRepo(commits.val, RepoName(repo_path)))
             ELSE IF Catches(SkippedErrors, commits.exc)
             THEN CollectRepos(Tail(repo_paths), since, until, author, all_commits)
             ELSE commits

\* variant: x goes before the elements of equal date (ties reversed)
InsertByDateBeforeTies(sorted, x) ==
    LET k == Cardinality({i \in DOMAIN sorted : StrLess(x.date, sorted[i].date)})
    IN  SubSeq(sorted, 1, k) \o <<x>> \o SubSeq(sorted, k + 1, Len(sorted))

\* where x goes in a list already sorted by date descending so that the sort
\* is stable: after every element whose date is not smaller
InsertByDate(sorted, x) ==
    LET before == {i \in DOMAIN sorted : ~StrLess(sorted[i].date, x.date)}
        k == Cardinality(before)
    IN  SubSeq(sorted, 1, k) \o <<x>> \o SubSeq(sorted, k + 1, Len(sorted))

RECURSIVE SortByDate(_, _)
\* all_commits.sort(key=lambda c: c.date, reverse=True)
SortByDate(commits, sorted) ==
    IF commits = <<>> THEN sorted
    ELSE SortByDate(Tail(commits), InsertByDate(sorted, Head(commits)))

get_commits_from_multiple_repos(repo_paths, since, until, author) ==
    LET all_commits == CollectRepos(repo_paths, since, until, author, <<>>)
    IN  IF all_commits.exc # NoExc THEN all_commits
        ELSE Ok(SortByDate(all_commits.val, <<>>))

\* --------------------------------------------------- report.utils.stats
\* a_path / b_path of a diff entry that has no such side
NonePath == "<None>"

\* class AuthorStats(NamedTuple)
AuthorStats(author, total_commits, files_changed, insertions, deletions, net_lines) ==
    [author |-> author, total_commits |-> total_commits, files_changed |-> files_changed,
     insertions |-> insertions, deletions |-> deletions, net_lines |-> net_lines]

\* class RepoStats(NamedTuple)
RepoStats(commits, authors, files, insertions, deletions, net, author_stats) ==
    [total_commits |-> commits, total_authors |-> authors,
     total_files_changed |-> files, total_insertions |-> insertions,
     total_deletions |-> deletions, net_lines |-> net, author_stats |-> author_stats]

\* author_data[author_name] = {"commits": 0, "files": set(), ...}
NewAuthorData(author_name) ==
    [author |-> author_name, commits |-> 0, files |-> {}, insertions |-> 0, deletions |-> 0]

\* variant: only the before-path of an entry is recorded
EntryPathsBeforeOnly(diff) == IF diff.a_path # NonePath THEN {diff.a_path} ELSE {}

\* the paths one diff entry adds to the touched-file sets
EntryPaths(diff) ==
    (IF diff.a_path # NonePath THEN {diff.a_path} ELSE {})
    \cup (IF diff.b_path # NonePath /\ diff.b_path # diff.a_path THEN {diff.b_path} ELSE {})

\* the patch text of an entry: decoded when bytes
DiffText(diff) == IF diff.bytes THEN Decode(diff.diff) ELSE diff.diff

\* variant: the file-header lines are counted as well
CountLinesWithHeaders(diff_text, sign) ==
    LET lines == Split(diff_text)
    IN  Cardinality({i \in DOMAIN lines : StartsWith(lines[i], <<sign>>)})

\* lines that start with the sign but not with the sign three times
CountLines(diff_text, sign) ==
    LET lines == Split(diff_text)
    IN  Cardinality({i \in DOMAIN lines :
            /\ StartsWith(lines[i], <<sign>>)
            /\ ~StartsWith(lines[i], <<sign, sign, sign>>)})

\* line.startswith("+") and not line.startswith("+++")
EntryInsertions(diff) == IF diff.diff # <<>> THEN CountLines(DiffText(diff), "+") ELSE 0

\* line.startswith("-") and not line.startswith("---")
EntryDeletions(diff) == IF diff.diff # <<>> THEN CountLines(DiffText(diff), "-") ELSE 0

RECURSIVE ScanDiffs(_, _, _)
\* for diff in diffs: ... ; an exception ends the scan and keeps what the
\* entries before it (and the paths of the raising entry) already added
ScanDiffs(diffs, fails, acc) ==
    IF diffs = <<>> THEN acc
    ELSE LET diff == Head(diffs)
             withPaths == [acc EXCEPT !.files = @ \cup EntryPaths(diff)]
         IN  IF fails = "text" /\ Len(diffs) = 1 THEN withPaths
             ELSE ScanDiffs(Tail(diffs), fails,
                      [withPaths EXCEPT !.insertions = @ + EntryInsertions(diff),
                                        !.deletions = @ + EntryDeletions(diff)])

\* try: if commit.parents: diffs = commit.parents[0].diff(commit, ...) ...
\* except Exception: pass     -- what one commit adds: files, insertions, deletions
CommitDelta(commit) ==
    LET zero == [files |-> {}, insertions |-> 0, deletions |-> 0]
    IN  IF commit.parents = 0 \/ commit.diffs.fails = "open" THEN zero
        ELSE ScanDiffs(commit.diffs.entries, commit.diffs.fails, zero)

\* position of the author in author_data (insertion order), 0 when absent
AuthorIndex(author_data, author_name) ==
    IF \E i \in DOMAIN author_data : author_data[i].author = author_name
    THEN CHOOSE i \in DOMAIN author_data : author_data[i].author = author_name
    ELSE 0

RECURSIVE CollectStats(_, _)
\* for commit in commits: ...   st = [author_data, all_files]
CollectStats(commits, st) ==
    IF commits = <<>> THEN st
    ELSE LET commit == Head(commits)
             author_name == AuthorName(commit)
             data == IF AuthorIndex(st.author_data, author_name) = 0
                     THEN Append(st.author_data, NewAuthorData(author_name))
                     ELSE st.author_data
             k == AuthorIndex(data, author_name)
             delta == CommitDelta(commit)
         IN  CollectStats(Tail(commits),
                 [author_data |->
                      [data EXCEPT ![k] =
                          [@ EXCEPT !.commits = @ + 1,
                                    !.files = @ \cup delta.files,
                                    !.insertions = @ + delta.insertions,
                                    !.deletions = @ + delta.deletions]],
                  all_files |-> st.all_files \cup delta.files])

\* variant: x goes before the authors with the same commit count
InsertByCommitsBeforeTies(sorted, x) ==
    LET k == Cardinality({i \in DOMAIN sorted : sorted[i].commits > x.commits})
    IN  SubSeq(sorted, 1, k) \o <<x>> \o SubSeq(sorted, k + 1, Len(sorted))

\* where x goes in a list sorted by commit count descending (stable)
InsertByCommits(sorted, x) ==
    LET k == Cardinality({i \in DOMAIN sorted : sorted[i].commits >= x.commits})
    IN  SubSeq(sorted, 1, k) \o <<x>> \o SubSeq(sorted, k + 1, Len(sorted))

RECURSIVE SortByCommits(_, _)
\* sorted(author_data.items(), key=lambda x: x[1]["commits"], reverse=True)
SortByCommits(author_data, sorted) ==
    IF author_data = <<>> THEN sorted
    ELSE SortByCommits(Tail(author_data), InsertByCommits(sorted, Head(author_data)))

\* variant: net lines as the sum of insertions and deletions
MakeAuthorStatsNetSum(data) ==
    AuthorStats(data.author, data.commits, Cardinality(data.files),
                data.insertions, data.deletions, data.insertions + data.deletions)

\* AuthorStats(author=..., net_lines=insertions - deletions)
MakeAuthorStats(data) ==
    AuthorStats(data.author, data.commits, Cardinality(data.files),
                data.insertions, data.deletions, data.insertions - data.deletions)

RECURSIVE SumField(_, _)
\* total_insertions += insertions / total_deletions += deletions
SumField(author_stats, field) ==
    IF author_stats = <<>> THEN 0
    ELSE Head(author_stats)[field] + SumField(Tail(author_stats), field)

\* the commits get_commit_stats counts: git's --author filter, or the "me" filter
StatsCommits(repo, since, until, author) ==
    LET isMe == Truthy(author) /\ Lower(author) = Me
        commits == iter_commits(repo, since, until,
                       IF Truthy(author) /\ ~isMe THEN author ELSE NoneStr)
    IN  IF commits.exc # NoExc THEN commits
        ELSE IF isMe THEN Ok(FilterMe(commits.val))
        ELSE commits

\* return RepoStats(...)
BuildRepoStats(commits, st) ==
    LET sorted == SortByCommits(st.author_data, <<>>)
        author_stats_list == [i \in DOMAIN sorted |-> MakeAuthorStats(sorted[i])]
        total_insertions == SumField(author_stats_list, "insertions")
        total_deletions == SumField(author_stats_list, "deletions")
    IN  RepoStats(Len(commits), Len(st.author_data), Cardinality(st.all_files),
                  total_insertions, total_deletions,
                  total_insertions - total_deletions, author_stats_list)

get_commit_stats(repo_path, since, until, author) ==
    LET repo == OpenRepo(repo_path)
    IN  IF repo.exc # NoExc THEN repo
        ELSE LET commits == StatsCommits(repo.val, since, until, author)
             IN  IF commits.exc # NoExc THEN commits
                 ELSE Ok(BuildRepoStats(commits.val,
                            CollectStats(commits.val,
                                [author_data |-> <<>>, all_files |-> {}])))

\* ------------------------------------------------------------ sample data
NameAme == <<"A", "m", "e">>
NameBea == <<"B", "e", "a">>
NameLower == <<"a", "m", "e">>
MailA == <<"a", "@", "e">>
MailB == <<"b", "@", "e">>

\* a 40-character object name: 7 times one hex digit, then 33 times another
Sha(prefix, rest) == Repeat(prefix, HashLen) \o Repeat(rest, 40 - HashLen)

\* seconds in a day
Day == 24 * 3600

\* since / until pairs: the whole month, and one hour of the second day
Windows == { [since |-> 0, until |-> 30 * Day],
             [since |-> Day, until |-> Day + 3600] }

\* injective sequences: a log never lists a commit twice
Logs(pool, n) == {s \in SeqsUpTo(pool, n) : Injective(s)}

\* commits of the repositories merged by the multi-repository call: two in
\* one minute, and one two hours later but committed at UTC-03:00
MultiPool ==
    { Commit(Sha("a", "0"), Actor(NameAme, MailA), FALSE, <<"a", "b">>,
             Day + 600, 0, 1, NoDiffs),
      Commit(Sha("a", "1"), Actor(NameBea, MailB), FALSE, <<"b">>,
             Day + 630, 0, 1, NoDiffs),
      Commit(Sha("e", "0"), Actor(NameBea, MailB), FALSE, <<"b", "a">>,
             Day + 7200, 0 - 180, 1, NoDiffs) }

\* the second repository is a clone that holds fewer of these commits
ClonePool == {c \in MultiPool : c.author.name = NameAme \/ c.tz # 0}

\* the log of the third repository is the same in every world
LibLog ==
    << Commit(Sha("a", "0"), Actor(NameAme, MailA), FALSE, <<"a", "b">>,
              Day + 600, 0, 1, NoDiffs) >>

MultiWorlds ==
    { [log |-> [r \in Logged |-> IF r = ProjA THEN a ELSE IF r = ProjB THEN b ELSE LibLog],
       user |-> NameAme] :
      a \in Logs(MultiPool, MaxMultiLog), b \in Logs(ClonePool, MaxMultiLog) }

\* "proj", "proj/", "/srv/proj", "lib", "tmp", "gone"
MultiPaths ==
    { Path(FALSE, <<"proj">>), Path(FALSE, <<"proj", "">>), Path(TRUE, <<"srv", "proj">>),
      Path(FALSE, <<"lib">>), Path(FALSE, <<"tmp">>), Path(FALSE, <<"gone">>) }

\* window and author filter of a multi-repository call: everything of the
\* month, or the commits of "aM" in one hour
MultiFilters ==
    { [since |-> 0, until |-> 30 * Day, author |-> NoneStr],
      [since |-> Day, until |-> Day + 3600, author |-> <<"a", "M">>] }

\* commits of the repository read by get_commits_detailed: plain, subject
\* with a trailing blank, lower-case namesake outside the narrow window,
\* merge, blank message, bytes message with CRLF and no author, bytes that
\* decode to a blank, author without a name
DetailedPool ==
    { Commit(Sha("a", "0"), Actor(NameAme, MailA), FALSE, <<"a", "b">>,
             Day + 600, 0, 1, NoDiffs),
      Commit(Sha("b", "0"), Actor(NameBea, MailB), FALSE, <<"a", "b", " ", "\n", "b">>,
             Day + 700, 0, 1, NoDiffs),
      Commit(Sha("e", "0"), Actor(NameLower, MailA), FALSE, <<" ", "a", "\n", "b">>,
             Day + 7200, 0, 1, NoDiffs),
      Commit(Sha("a", "1"), Actor(NameAme, MailA), FALSE, <<"a", "b">>,
             Day + 800, 0, 2, NoDiffs),
      Commit(Sha("b", "1"), Actor(NameBea, MailB), FALSE, <<" ", "\n", "\t">>,
             Day + 900, 0, 1, NoDiffs),
      Commit(Sha("e", "1"), NoActor, TRUE, <<"<ff>", "a", "\r", "\n", "b">>,
             Day + 1000, 0, 1, NoDiffs),
      Commit(Sha("a", "2"), Actor(<<>>, MailB), TRUE, <<"<ff>", " ">>,
             Day + 1100, 0, 0, NoDiffs),
      Commit(Sha("b", "2"), Actor(NoneStr, MailB), FALSE, <<"b">>,
             Day + 1200, 0, 1, NoDiffs) }

\* user.name as configured: a name, not set, or a value read back as a number
UserNames == {NameAme, NoValue, IntValue}

DetailedWorlds ==
    { [log |-> [r \in Logged |-> IF r = ProjA THEN a ELSE LibLog], user |-> u] :
      a \in Logs(DetailedPool, MaxLog), u \in UserNames }

\* "proj", "proj/src", "tmp", ".", "gone", "/srv/bad"
DetailedPaths ==
    { Path(FALSE, <<"proj">>), Path(FALSE, <<"proj", "src">>), Path(FALSE, <<"tmp">>),
      Path(FALSE, <<".">>), Path(FALSE, <<"gone">>), Path(TRUE, <<"srv", "bad">>) }

\* no filter, "", "me", "Me", "aM", "b"
DetailedAuthors == {NoneStr, <<>>, Me, <<"M", "e">>, <<"a", "M">>, <<"b">>}

\* since / until of get_all_authors, each optional
OptionalWindows ==
    { [since |-> NoneTime, until |-> NoneTime], [since |-> Day, until |-> NoneTime],
      [since |-> NoneTime, until |-> Day + 3600], [since |-> Day, until |-> Day + 3600] }

\* commits of the repository read by get_commit_stats: an edit, a rename
\* plus a new file, a root commit, a diff that cannot be computed, a scan
\* that breaks at its second entry, a deletion outside the narrow window
StatsPool ==
    { Commit(Sha("a", "0"), Actor(NameAme, MailA), FALSE, <<"a">>, Day + 600, 0, 1,
             Diffs("none", << DiffEntry("f", "f", TRUE,
                                <<"+", "a", "\n", "-", "b", "\n", "+", "a">>),
                              DiffEntry("m", "m", TRUE, <<>>) >>)),
      Commit(Sha("b", "0"), Actor(NameBea, MailB), FALSE, <<"b">>, Day + 700, 0, 1,
             Diffs("none",
                   << DiffEntry("f", "g", FALSE,
                          <<"-", "-", "-", " ", "a", "\n", "+", "+", "+", " ", "b", "\n", "-", "a">>),
                      DiffEntry(NonePath, "h", TRUE, <<"+", "b">>) >>)),
      Commit(Sha("e", "0"), Actor(NameAme, MailA), FALSE, <<"a">>, Day + 800, 0, 0,
             Diffs("none", << DiffEntry("k", "k", TRUE, <<"+", "a">>) >>)),
      Commit(Sha("a", "1"), Actor(NameBea, MailB), FALSE, <<"b">>, Day + 900, 0, 1,
             Diffs("open", <<>>)),
      Commit(Sha("b", "1"), NoActor, FALSE, <<"a">>, Day + 1000, 0, 1,
             Diffs("text", << DiffEntry("g", "g", TRUE, <<>>),
                              DiffEntry("h", "h", TRUE, <<"+", "a">>) >>)),
      Commit(Sha("e", "1"), Actor(NameAme, MailA), FALSE, <<"b">>, Day + 7200, 0, 1,
             Diffs("none", << DiffEntry("k", NonePath, TRUE,
                                <<"-", "b", "<ff>", "\n", "-", "-", "-", "a">>) >>)) }

StatsWorlds ==
    { [log |-> [r \in Logged |-> IF r = ProjA THEN a ELSE LibLog], user |-> u] :
      a \in Logs(StatsPool, MaxStatsLog), u \in {NameAme, NoValue} }

\* "proj", "tmp"
StatsPaths == {Path(FALSE, <<"proj">>), Path(FALSE, <<"tmp">>)}

\* no filter, "me", "Am", "b"
StatsAuthors == {NoneStr, Me, <<"A", "m">>, <<"b">>}

\* ------------------------------------------------------------ state machine
NoArgs == [repo_paths |-> <<>>, repo_path |-> Path(FALSE, <<>>), since |-> 0,
           until |-> 0, author |-> NoneStr]

InitMulti ==
    /\ world \in MultiWorlds
    /\ op = "none"
    /\ args = NoArgs
    /\ result = Ok(<<>>)

\* a call of get_commits_from_multiple_repos(repo_paths, since, until, author)
CallMultipleRepos ==
    \E repo_paths \in SeqsUpTo(MultiPaths, MaxPaths), f \in MultiFilters :
        /\ op = "none"
        /\ op' = "get_commits_from_multiple_repos"
        /\ args' = [NoArgs EXCEPT !.repo_paths = repo_paths, !.since = f.since,
                                  !.until = f.until, !.author = f.author]
        /\ result' = get_commits_from_multiple_repos(repo_paths, f.since, f.until, f.author)
        /\ UNCHANGED world

\* the caller drops the result; the next call starts from a clean slate
Return ==
    /\ op # "none"
    /\ op' = "none"
    /\ args' = NoArgs
    /\ result' = Ok(<<>>)
    /\ UNCHANGED world

NextMulti == CallMultipleRepos \/ Return

SpecMulti == InitMulti /\ [][NextMulti]_vars

InitDetailed ==
    /\ world \in DetailedWorlds
    /\ op = "none"
    /\ args = NoArgs
    /\ result = Ok(<<>>)

\* a call of get_commits_detailed(repo_path, since, until, author)
CallDetailed ==
    \E repo_path \in DetailedPaths, w \in Windows, author \in DetailedAuthors :
        /\ op = "none"
        /\ op' = "get_commits_detailed"
        /\ args' = [NoArgs EXCEPT !.repo_path = repo_path, !.since = w.since,
                                  !.until = w.until, !.author = author]
        /\ result' = get_commits_detailed(repo_path, w.since, w.until, author)
        /\ UNCHANGED world

\* a call of get_all_authors(repo_path, since, until)
CallAllAuthors ==
    \E repo_path \in DetailedPaths, w \in OptionalWindows :
        /\ op = "none"
        /\ op' = "get_all_authors"
        /\ args' = [NoArgs EXCEPT !.repo_path = repo_path, !.since = w.since,
                                  !.until = w.until]
        /\ result' = get_all_authors(repo_path, w.since, w.until)
        /\ UNCHANGED world

\* a call of get_commit_stats(repo_path, since, until, author)
CallStats ==
    \E repo_path \in DetailedPaths \cup StatsPaths, w \in Windows,
       author \in DetailedAuthors \cup StatsAuthors :
        /\ op = "none"
        /\ op' = "get_commit_stats"
        /\ args' = [NoArgs EXCEPT !.repo_path = repo_path, !.since = w.since,
                                  !.until = w.until, !.author = author]
        /\ result' = get_commit_stats(repo_path, w.since, w.until, author)
        /\ UNCHANGED world

NextDetailed == CallDetailed \/ CallAllAuthors \/ CallStats \/ Return

SpecDetailed == InitDetailed /\ [][NextDetailed]_vars

InitStats ==
    /\ world \in StatsWorlds
    /\ op = "none"
    /\ args = NoArgs
    /\ result = Ok(<<>>)

NextStats == CallStats \/ Return

SpecStats == InitStats /\ [][NextStats]_vars

\* ------------------------------------------------- multi-repository claims
CountIn(s, x) == Cardinality({i \in DOMAIN s : s[i] = x})

\* s and t hold the same elements the same number of times
SameBag(s, t) ==
    /\ Len(s) = Len(t)
    /\ \A x \in Range(s) \cup Range(t) : CountIn(s, x) = CountIn(t, x)

RECURSIVE LastName(_, _)
\* the final directory name of an absolute path, read from its right end:
\* "" and "." name nothing, ".." cancels the name to its left
LastName(parts, skip) ==
    IF parts = <<>> THEN ""
    ELSE LET last == parts[Len(parts)]
             front == SubSeq(parts, 1, Len(parts) - 1)
         IN  IF last \in {"", "."} THEN LastName(front, skip)
             ELSE IF last = ".." THEN LastName(front, skip + 1)
             ELSE IF skip > 0 THEN LastName(front, skip - 1)
             ELSE last

FinalName(p) == LastName(IF p.abs THEN p.parts ELSE Cwd \o p.parts, 0)

\* what get_commits_detailed returned for a path, tagged with the path's
\* final directory name; nothing for a path that failed
ReadFrom(repo_path) ==
    LET r == get_commits_detailed(repo_path, args.since, args.until, args.author)
    IN  IF r.exc # NoExc THEN <<>>
        ELSE [i \in DOMAIN r.val |->
                 CommitInfo(r.val[i].hash, r.val[i].author, r.val[i].date,
                            r.val[i].message, FinalName(repo_path))]

RECURSIVE Concatenation(_)
\* the commits of the paths in input order, each path's in the order read
Concatenation(repo_paths) ==
    IF repo_paths = <<>> THEN <<>>
    ELSE ReadFrom(Head(repo_paths)) \o Concatenation(Tail(repo_paths))

MultiDone == op = "get_commits_from_multiple_repos"

\* the paths of the call on which get_commits_detailed raises
FailingPaths ==
    {i \in DOMAIN args.repo_paths :
        get_commits_detailed(args.repo_paths[i], args.since, args.until, args.author).exc
            # NoExc}

\* C1: get_commits_from_multiple_repos never raises because of a failing
\* path, whatever the error: the failing paths are skipped and the result
\* holds exactly the commits of the paths that did not fail.
C1_NoPathAborts ==
    MultiDone =>
        /\ result.exc = NoExc
        /\ SameBag(result.val, Concatenation(args.repo_paths))

\* C2: the result is ordered by date string descending, and commits with the
\* same date string appear in concatenation order (path position, then the
\* order get_commits_detailed returned them).
C2_SortedStable ==
    (MultiDone /\ result.exc = NoExc) =>
        /\ \A i, j \in DOMAIN result.val :
               i < j => ~StrLess(result.val[i].date, result.val[j].date)
        /\ \A x \in Range(result.val) :
               SelectSeq(result.val, LAMBDA c : c.date = x.date)
                   = SelectSeq(Concatenation(args.repo_paths), LAMBDA c : c.date = x.date)

\* a merged result with two dates, one of them shared by commits of two paths
C2_Witness ==
    /\ MultiDone /\ result.exc = NoExc
    /\ \E i, j, k \in DOMAIN result.val :
           /\ i < j
           /\ result.val[i].date = result.val[j].date
           /\ result.val[i].repo # result.val[j].repo
           /\ result.val[i].message # result.val[j].message
           /\ result.val[k].date # result.val[i].date

\* C3: every returned commit carries the final directory name of the path it
\* was read from, and the hash, author, date and message get_commits_detailed
\* returned for that path.
C3_Retagged ==
    (MultiDone /\ result.exc = NoExc) =>
        SameBag(result.val, Concatenation(args.repo_paths))

\* commits read through "proj/" come back tagged "proj", next to others
C3_Witness ==
    /\ MultiDone /\ result.exc = NoExc
    /\ \E i \in DOMAIN args.repo_paths :
           /\ args.repo_paths[i] = Path(FALSE, <<"proj", "">>)
           /\ ReadFrom(args.repo_paths[i]) # <<>>
    /\ \E x \in Range(result.val) : x.repo = "proj"
    /\ \E x \in Range(result.val) : x.repo # "proj"

\* the paths of the call that lie in a repository of their own
Opens(i) == Repo(args.repo_paths[i]).exc = NoExc

\* C4 (as claimed): two commits read from two different repositories never
\* have both the same hash and the same origin.
C4_OriginDisambiguates ==
    (MultiDone /\ result.exc = NoExc) =>
        \A i, j \in DOMAIN args.repo_paths :
            (Opens(i) /\ Opens(j)
             /\ Repo(args.repo_paths[i]).val # Repo(args.repo_paths[j]).val) =>
                \A c \in Range(ReadFrom(args.repo_paths[i])),
                   d \in Range(ReadFrom(args.repo_paths[j])) :
                    ~(c.hash = d.hash /\ c.repo = d.repo)

\* C4 (amended): the origin is the final directory name only.  In the result
\* the commits with a given hash and origin are exactly the commits with
\* that hash read from the paths with that final directory name, so commits
\* read from paths whose final directory names differ never agree in both.
C4_OriginIsDirectoryName ==
    (MultiDone /\ result.exc = NoExc) =>
        LET conc == Concatenation(args.repo_paths)
            Same(s, x) == {k \in DOMAIN s : s[k].hash = x.hash /\ s[k].repo = x.repo}
        IN  /\ \A x \in Range(result.val) \cup Range(conc) :
                   Cardinality(Same(result.val, x)) = Cardinality(Same(conc, x))
            /\ \A i, j \in DOMAIN args.repo_paths :
                   FinalName(args.repo_paths[i]) # FinalName(args.repo_paths[j]) =>
                       \A c \in Range(ReadFrom(args.repo_paths[i])),
                          d \in Range(ReadFrom(args.repo_paths[j])) : c.repo # d.repo

\* the same hash read from "proj" and from "lib" comes back under two origins
C4_Witness ==
    /\ MultiDone /\ result.exc = NoExc
    /\ \E x, y \in Range(result.val) : x.hash = y.hash /\ x.repo # y.repo

\* ----------------------------------------------- single-repository claims
DetailedDone == op = "get_commits_detailed"

\* the non-merge commits of the repository of the call inside its window, in
\* log order
WindowLog ==
    LET located == Repo(args.repo_path)
    IN  IF located.exc # NoExc THEN <<>>
        ELSE IF located.val \in Corrupt THEN <<>>
        ELSE SelectSeq(world.log[located.val],
                 LAMBDA c : /\ c.parents < 2
                            /\ (args.since = NoneTime \/ args.since <= c.epoch)
                            /\ (args.until = NoneTime \/ c.epoch <= args.until))

\* what the call returns when no author filter is given
Unfiltered == get_commits_detailed(args.repo_path, args.since, args.until, NoneStr)

\* C5: with the author filter "me", get_commits_detailed returns only commits
\* whose author name equals the configured user name exactly; when that name
\* cannot be resolved it returns all commits of the window unfiltered, and
\* the filter raises no error of its own.
C5_MeFilter ==
    (DetailedDone /\ args.author = Me) =>
        /\ result.exc = Unfiltered.exc
        /\ result.exc = NoExc =>
               IF world.user = NoValue
               THEN result.val = Unfiltered.val
               ELSE \A x \in Range(result.val) : x.author = world.user

\* "me" keeps the commit of "Ame" and drops the one of the namesake "ame"
C5_Witness ==
    /\ DetailedDone /\ args.author = Me /\ result.exc = NoExc
    /\ world.user = NameAme
    /\ result.val # <<>>
    /\ \E c \in Range(WindowLog) : c.author.name = NameLower /\ StrippedMessage(c) # <<>>
    /\ Len(result.val) < Len(Unfiltered.val)

\* the author has a name that contains the fragment, letter case ignored
ContainsIgnoringCase(c, fragment) ==
    /\ c.author.present
    /\ c.author.name # NoneStr
    /\ \E i \in 0..(Len(c.author.name) - Len(fragment)) :
           \A j \in 1..Len(fragment) :
               LowerChar(c.author.name[i + j]) = LowerChar(fragment[j])

\* the commits of the window with a non-blank message whose author matches
MatchingCommits(fragment) ==
    LET kept == SelectSeq(WindowLog,
                    LAMBDA c : StrippedMessage(c) # <<>> /\ ContainsIgnoringCase(c, fragment))
    IN  [i \in DOMAIN kept |-> MakeCommitInfo(kept[i])]

\* C6 (as claimed): for a given author filter other than "me", the result is
\* exactly the non-merge commits of the window with a non-empty message
\* whose author name contains the filter, letter case ignored, in log order.
C6_FragmentFilter ==
    (DetailedDone /\ Truthy(args.author) /\ args.author # Me /\ result.exc = NoExc) =>
        result.val = MatchingCommits(args.author)

\* C6 (amended): the same, for a given author filter that is not the
\* keyword "me" in any letter case ("Me", "ME" and "mE" are the keyword too).
C6_FragmentFilterNotKeyword ==
    (DetailedDone /\ Truthy(args.author) /\ Lower(args.author) # Me /\ result.exc = NoExc) =>
        result.val = MatchingCommits(args.author)

\* the fragment "aM" keeps a commit of "Ame" and drops a commit of "Bea"
C6_Witness ==
    /\ DetailedDone /\ args.author = <<"a", "M">> /\ result.exc = NoExc
    /\ \E x \in Range(result.val) : x.author = NameAme
    /\ \E c \in Range(WindowLog) : c.author.name = NameBea /\ StrippedMessage(c) # <<>>
    /\ \A x \in Range(result.val) : x.author # NameBea

\* C7: every returned commit has a non-empty message without a line break
\* and without leading or trailing whitespace, a hash of 7 characters, and
\* the author "Unknown" when the record has no author name; a commit whose
\* message is blank is never returned.
C7_TrimmedFirstLine ==
    (DetailedDone /\ result.exc = NoExc) =>
        /\ \A x \in Range(result.val) :
               /\ x.message # <<>>
               /\ \A i \in DOMAIN x.message : x.message[i] # "\n"
               /\ x.message[1] \notin Whitespace
               /\ x.message[Len(x.message)] \notin Whitespace
               /\ Len(x.hash) = HashLen
               /\ x.author # <<>> /\ x.author # NoneStr
        /\ Len(result.val) <= Cardinality({i \in DOMAIN WindowLog :
               \E k \in DOMAIN WindowLog[i].message :
                   WindowLog[i].message[k] \notin Whitespace \cup InvalidBytes})

SingleDone == op \in {"get_commits_detailed", "get_commit_stats", "get_all_authors"}

\* the path names an existing directory
Exists(p) == Abspath(p) \in Dirs

\* the path or one of its ancestors is a repository
InsideWorkingCopy(p) == \E r \in RepoRoots : IsPrefix(r, Abspath(p))

StatsDone == op = "get_commit_stats" /\ result.exc = NoExc

\* the commits the call counts
Counted ==
    StatsCommits(Repo(args.repo_path).val, args.since, args.until, args.author).val

RECURSIVE SumOver(_, _)
\* the sum of f[i] over the indices in I
SumOver(f, I) ==
    IF I = {} THEN 0
    ELSE LET i == CHOOSE k \in I : TRUE
         IN  f[i] + SumOver(f, I \ {i})

\* C9: in every RepoStats, net_lines = total_insertions - total_deletions,
\* the total_commits of the authors sum to RepoStats.total_commits,
\* total_authors is the length of author_stats, and each AuthorStats has
\* net_lines = insertions - deletions.
C9_StatsConsistent ==
    StatsDone =>
        LET st == result.val
            as == st.author_stats
        IN  /\ st.net_lines = st.total_insertions - st.total_deletions
            /\ SumOver([i \in DOMAIN as |-> as[i].total_commits], DOMAIN as)
                   = st.total_commits
            /\ st.total_authors = Len(as)
            /\ \A i \in DOMAIN as : as[i].net_lines = as[i].insertions - as[i].deletions

\* statistics over three commits of two authors with insertions and deletions
C9_Witness ==
    /\ StatsDone
    /\ result.val.total_commits >= 3
    /\ result.val.total_authors >= 2
    /\ result.val.total_insertions > result.val.total_deletions
    /\ result.val.total_deletions > 0

\* both sides of every diff entry of the commits in cs that have a parent
\* and whose diff could be computed
TouchedPaths(cs) ==
    UNION { UNION { {e.a_path, e.b_path} \ {NonePath} : e \in Range(c.diffs.entries) } :
            c \in {d \in cs : d.parents > 0 /\ d.diffs.fails # "open"} }

\* the counted commits shown under the author name
CommitsOf(name) ==
    {c \in Range(Counted) :
        (IF c.author.present /\ Truthy(c.author.name) THEN c.author.name ELSE Unknown) = name}

\* C10: total_files_changed is the number of distinct paths on either side
\* of the diff entries of all counted commits; each files_changed is that
\* number over the author's commits; so the total is at most the sum and at
\* least the maximum of the per-author counts.
C10_FilesAreUnion ==
    StatsDone =>
        LET st == result.val
            as == st.author_stats
        IN  /\ st.total_files_changed = Cardinality(TouchedPaths(Range(Counted)))
            /\ \A i \in DOMAIN as :
                   as[i].files_changed = Cardinality(TouchedPaths(CommitsOf(as[i].author)))
            /\ st.total_files_changed
                   <= SumOver([i \in DOMAIN as |-> as[i].files_changed], DOMAIN as)
            /\ \A i \in DOMAIN as : as[i].files_changed <= st.total_files_changed

\* two authors touch the same file and one of them renames it: the total is
\* below the sum of the per-author counts
C10_Witness ==
    /\ StatsDone
    /\ result.val.total_authors >= 2
    /\ \E c \in Range(Counted) : \E e \in Range(c.diffs.entries) :
           /\ c.parents > 0 /\ c.diffs.fails = "none"
           /\ e.a_path # NonePath /\ e.b_path # NonePath /\ e.a_path # e.b_path
    /\ result.val.total_files_changed
           < SumOver([i \in DOMAIN result.val.author_stats |->
                         result.val.author_stats[i].files_changed],
                     DOMAIN result.val.author_stats)
    /\ \A i \in DOMAIN result.val.author_stats :
           result.val.author_stats[i].files_changed > 0

\* the name a counted commit is shown under
ShownAuthor(c) ==
    IF c.author.present /\ Truthy(c.author.name) THEN c.author.name ELSE Unknown

\* position in the counted log of the first commit shown under the name
FirstSeen(name) ==
    CHOOSE i \in DOMAIN Counted :
        /\ ShownAuthor(Counted[i]) = name
        /\ \A j \in DOMAIN Counted : ShownAuthor(Counted[j]) = name => i <= j

\* C11: author_stats is ordered by total_commits descending, each author
\* appears exactly once, and authors with equal commit counts appear in the
\* order in which the log first showed them.
C11_AuthorsOrdered ==
    StatsDone =>
        LET as == result.val.author_stats
        IN  /\ \A i, j \in DOMAIN as : i < j => as[i].total_commits >= as[j].total_commits
            /\ \A i, j \in DOMAIN as : as[i].author = as[j].author => i = j
            /\ {as[i].author : i \in DOMAIN as} = {ShownAuthor(c) : c \in Range(Counted)}
            /\ \A i, j \in DOMAIN as :
                   (i < j /\ as[i].total_commits = as[j].total_commits) =>
                       FirstSeen(as[i].author) < FirstSeen(as[j].author)

\* "Bea" and "Ame" have as many commits each and "Bea" was logged first
C11_Witness ==
    /\ StatsDone
    /\ Len(result.val.author_stats) = 2
    /\ result.val.author_stats[1].author = NameBea
    /\ result.val.author_stats[2].author = NameAme
    /\ result.val.author_stats[1].total_commits = result.val.author_stats[2].total_commits

\* the counted commits whose diff was computed and scanned to the end
Scanned(cs) == {c \in cs : c.parents > 0 /\ c.diffs.fails = "none"}

RECURSIVE LinesOfEntries(_, _)
\* insertions (sign "+") or deletions (sign "-") of a list of diff entries
LinesOfEntries(entries, sign) ==
    IF entries = <<>> THEN 0
    ELSE (IF sign = "+" THEN EntryInsertions(Head(entries))
          ELSE EntryDeletions(Head(entries)))
         + LinesOfEntries(Tail(entries), sign)

RECURSIVE LinesOfCommits(_, _, _)
\* the lines of the commits of the log that are in the set keep and were
\* scanned to the end
LinesOfCommits(log, keep, sign) ==
    IF log = <<>> THEN 0
    ELSE (IF Head(log) \in Scanned(keep)
          THEN LinesOfEntries(Head(log).diffs.entries, sign) ELSE 0)
         + LinesOfCommits(Tail(log), keep, sign)

\* C12: when computing or scanning the diff of a commit fails, before the
\* first entry or part-way, get_commit_stats does not raise, the commit adds
\* nothing to any insertion, deletion or file count, and it still counts as
\* one commit of its author and of the repository.
C12_FailedDiffCountsZero ==
    (op = "get_commit_stats" /\ Repo(args.repo_path).exc = NoExc
     /\ StatsCommits(Repo(args.repo_path).val, args.since, args.until, args.author).exc = NoExc) =>
        /\ result.exc = NoExc
        /\ LET st == result.val
               as == st.author_stats
               all == Range(Counted)
           IN  /\ st.total_commits = Len(Counted)
               /\ st.total_files_changed = Cardinality(TouchedPaths(Scanned(all)))
               /\ st.total_insertions = LinesOfCommits(Counted, all, "+")
               /\ st.total_deletions = LinesOfCommits(Counted, all, "-")
               /\ \A i \in DOMAIN as :
                      /\ as[i].total_commits = Cardinality(CommitsOf(as[i].author))
                      /\ as[i].files_changed
                             = Cardinality(TouchedPaths(Scanned(CommitsOf(as[i].author))))
                      /\ as[i].insertions
                             = LinesOfCommits(Counted, CommitsOf(as[i].author), "+")
                      /\ as[i].deletions
                             = LinesOfCommits(Counted, CommitsOf(as[i].author), "-")

\* what get_commits_detailed returns for the arguments of the call
SameCallDetailed ==
    get_commits_detailed(args.repo_path, args.since, args.until, args.author)

\* C13: for the same repository, window and author filter, get_commit_stats
\* counts exactly the commits get_commits_detailed returns: total_commits is
\* the number of commits returned, and the author filter selects the same
\* commits in both.
C13_SameCommitSet ==
    (op = "get_commit_stats" /\ result.exc = NoExc) =>
        /\ SameCallDetailed.exc = NoExc
        /\ result.val.total_commits = Len(SameCallDetailed.val)
        /\ [i \in DOMAIN Counted |-> SubSeq(Counted[i].hexsha, 1, HashLen)]
               = [i \in DOMAIN SameCallDetailed.val |-> SameCallDetailed.val[i].hash]

\* no diff of a counted commit fails
AllDiffsRead == \A c \in Range(Counted) : c.diffs.fails = "none"

\* the lines of a patch text that begin with the sign and not with three of it
SignedLines(text, sign) ==
    LET lines == Split(text)
    IN  Cardinality({i \in DOMAIN lines :
            /\ Len(lines[i]) >= 1 /\ lines[i][1] = sign
            /\ ~(Len(lines[i]) >= 3 /\ lines[i][2] = sign /\ lines[i][3] = sign)})

\* the entries of a commit the scan visits: none for a root commit
Visited(c) == IF c.parents = 0 THEN <<>> ELSE c.diffs.entries

\* the signed lines over the entries of a commit that have a patch body
LinesOfCommit(c, sign) ==
    LET es == Visited(c)
        n == [j \in DOMAIN es |->
                 IF es[j].diff = <<>> THEN 0
                 ELSE SignedLines(IF es[j].bytes THEN Decode(es[j].diff) ELSE es[j].diff, sign)]
    IN  SumOver(n, DOMAIN es)

\* the signed lines over the counted commits in the set cs
LinesOver(cs, sign) ==
    SumOver([i \in DOMAIN Counted |-> LinesOfCommit(Counted[i], sign)],
            {i \in DOMAIN Counted : Counted[i] \in cs})

\* the paths of the visited entries of the commits in cs; withBody: only of
\* the entries that have a patch body
PathsOver(cs, withBody) ==
    UNION { UNION { {e.a_path, e.b_path} \ {NonePath} :
                    e \in {x \in Range(Visited(c)) : withBody => x.diff # <<>>} } :
            c \in cs }

\* the line and file counts of a result are those of LinesOver and PathsOver
CountsAre(withBody) ==
    LET st == result.val
        as == st.author_stats
    IN  /\ st.total_commits = Len(Counted)
        /\ st.total_insertions = LinesOver(Range(Counted), "+")
        /\ st.total_deletions = LinesOver(Range(Counted), "-")
        /\ st.total_files_changed = Cardinality(PathsOver(Range(Counted), withBody))
        /\ \A i \in DOMAIN as :
               /\ as[i].total_commits = Cardinality(CommitsOf(as[i].author))
               /\ as[i].insertions = LinesOver(CommitsOf(as[i].author), "+")
               /\ as[i].deletions = LinesOver(CommitsOf(as[i].author), "-")
               /\ as[i].files_changed
                      = Cardinality(PathsOver(CommitsOf(as[i].author), withBody))

\* C14 (as stated): every diff entry with a patch body adds its lines that
\* begin with "+" but not "+++" as insertions and its lines that begin with
\* "-" but not "---" as deletions; an entry without a patch body and a root
\* commit add zero lines and zero files; the commit is still counted.
C14_LinesAndFilesPerEntry == (StatsDone /\ AllDiffsRead) => CountsAre(TRUE)

\* C14 (amended): every diff entry with a patch body adds its lines that begin
\* with "+" but not "+++" as insertions and its lines that begin with "-" but
\* not "---" as deletions; an entry without a patch body adds zero lines, its
\* paths are still counted as files; a root commit adds zero lines and zero
\* files; the commit is still counted.
C14_LinesPerEntry == (StatsDone /\ AllDiffsRead) => CountsAre(FALSE)

\* a root commit, an entry without a patch body and a patch with file-header
\* lines were counted
C14_Witness ==
    /\ StatsDone /\ AllDiffsRead
    /\ \E c \in Range(Counted) : c.parents = 0 /\ c.diffs.entries # <<>>
    /\ \E c \in Range(Counted) :
           c.parents > 0 /\ \E e \in Range(c.diffs.entries) : e.diff = <<>>
    /\ \E c \in Range(Counted) :
           c.parents > 0 /\ \E e \in Range(c.diffs.entries) :
               \E l \in Range(Split(DiffText(e))) : StartsWith(l, <<"+", "+", "+">>)
    /\ result.val.total_insertions > 0
    /\ result.val.total_deletions > 0

\* ------------------------------------------------------------ categorizer.py
\* bounds of the commit messages and message lists
MaxWords == 2
MaxCommits == 3

\* console_keywords, in the listed order
console_keywords ==
    << <<"c", "o", "n", "s", "o", "l", "e">>,
       <<"u", "i", "-", "b", "l", "o", "c", "k">>,
       <<"u", "i", " ", "b", "l", "o", "c", "k">>,
       <<"f", "r", "o", "n", "t", "e", "n", "d">>,
       <<"r", "e", "a", "c", "t">>,
       <<"d", "e", "t", "a", "i", "l">>,
       <<"i", "c", "o", "n">>,
       <<"s", "t", "y", "l", "e">>,
       <<"c", "s", "s">>,
       <<"c", "o", "m", "p", "o", "n", "e", "n", "t">>,
       <<"b", "u", "t", "t", "o", "n">>,
       <<"m", "o", "d", "a", "l">>,
       <<"d", "i", "a", "l", "o", "g">>,
       <<"f", "o", "r", "m">>,
       <<"l", "a", "y", "o", "u", "t">>,
       <<"p", "a", "g", "e">>,
       <<"v", "i", "e", "w">>,
       <<"s", "c", "r", "e", "e", "n">>,
       <<"u", "i">>,
       <<"u", "x">> >>

\* server_keywords, in the listed order
server_keywords ==
    << <<"s", "e", "r", "v", "e", "r">>,
       <<"n", "e", "s", "t", "-", "c", "o", "r", "e">>,
       <<"n", "e", "s", "t", "c", "o", "r", "e">>,
       <<"b", "a", "c", "k", "e", "n", "d">>,
       <<"a", "p", "i">>,
       <<"e", "n", "d", "p", "o", "i", "n", "t">>,
       <<"c", "o", "n", "t", "r", "o", "l", "l", "e", "r">>,
       <<"s", "e", "r", "v", "i", "c", "e">>,
       <<"r", "e", "p", "o", "s", "i", "t", "o", "r", "y">>,
       <<"d", "a", "t", "a", "b", "a", "s", "e">>,
       <<"d", "b">>,
       <<"q", "u", "e", "r", "y">>,
       <<"m", "i", "g", "r", "a", "t", "i", "o", "n">> >>

\* any(keyword in message_lower for keyword in keywords)
AnyKeyword(message_lower, keywords) ==
    \E k \in DOMAIN keywords : Contains(message_lower, keywords[k])

\* variant: the Server keywords are tested first
categorize_commit_server_first(message) ==
    LET message_lower == Lower(message)
    IN  IF AnyKeyword(message_lower, server_keywords) THEN "Server"
        ELSE IF AnyKeyword(message_lower, console_keywords) THEN "Console"
        ELSE "Others"

\* def categorize_commit(message)
categorize_commit(message) ==
    LET message_lower == Lower(message)
    IN  IF AnyKeyword(message_lower, console_keywords) THEN "Console"
        ELSE IF AnyKeyword(message_lower, server_keywords) THEN "Server"
        ELSE "Others"

\* grouped = {"Console": [], "Server": [], "Others": []}
EmptyGroups == [Console |-> <<>>, Server |-> <<>>, Others |-> <<>>]

\* variant: the commit is put at the front of its bucket
AddToGroupFront(grouped, commit) ==
    [grouped EXCEPT ![categorize_commit(commit)] = <<commit>> \o @]

\* grouped[category].append(commit)
AddToGroup(grouped, commit) ==
    [grouped EXCEPT ![categorize_commit(commit)] = Append(@, commit)]

RECURSIVE GroupLoop(_, _)
\* for commit in commits: ...
GroupLoop(commits, grouped) ==
    IF commits = <<>> THEN grouped
    ELSE GroupLoop(Tail(commits), AddToGroup(grouped, Head(commits)))

\* def group_commits_by_component(commits)
group_commits_by_component(commits) == GroupLoop(commits, EmptyGroups)

\* pieces commit messages are put together from
Fragments ==
    { <<"u">>,
      <<"I">>,
      <<"A", "p", "i">>,
      <<"D", "B">>,
      <<"F", "o", "r", "m">>,
      <<"s", "e", "r", "v", "e", "r">>,
      <<"C", "o", "n", "s", "o", "l", "e">>,
      <<" ">>,
      <<"-", "b", "l", "o", "c", "k">>,
      <<"x">>,
      <<"d", "o", "c", "s">>,
      <<"b">> }

RECURSIVE Concat(_)
\* the pieces joined into one string
Concat(pieces) == IF pieces = <<>> THEN <<>> ELSE Head(pieces) \o Concat(Tail(pieces))

\* commit messages of up to MaxWords pieces
Messages == {Concat(ps) : ps \in SeqsUpTo(Fragments, MaxWords)}

\* the messages the lists to group are made of
ListMessages ==
    { <<"F", "o", "r", "m">>,
      <<"s", "e", "r", "v", "e", "r", " ", "A", "P", "I">>,
      <<"d", "o", "c", "s">>,
      <<"A", "p", "i">>,
      <<"C", "O", "N", "S", "O", "L", "E">>,
      <<"x">> }

\* the lists of commit messages a caller holds: one message of any kind, or
\* up to MaxCommits of the list messages
CommitLists == {<<message>> : message \in Messages} \cup SeqsUpTo(ListMessages, MaxCommits)

InitCategorizer ==
    /\ world \in {[commits |-> commits] : commits \in CommitLists}
    /\ op = "none"
    /\ args = NoArgs
    /\ result = Ok(<<>>)

\* a call of categorize_commit(message) on one message of the list
CallCategorize ==
    \E i \in DOMAIN world.commits :
        /\ op = "none"
        /\ op' = "categorize_commit"
        /\ args' = [message |-> world.commits[i]]
        /\ result' = Ok(categorize_commit(world.commits[i]))
        /\ UNCHANGED world

\* a call of group_commits_by_component(commits)
CallGroupByComponent ==
    /\ op = "none"
    /\ op' = "group_commits_by_component"
    /\ args' = [commits |-> world.commits]
    /\ result' = Ok(group_commits_by_component(world.commits))
    /\ UNCHANGED world

NextCategorizer == CallCategorize \/ CallGroupByComponent \/ Return

SpecCategorizer == InitCategorizer /\ [][NextCategorizer]_vars

\* ------------------------------------------------------------------ C15
\* the three component labels
ComponentType == {"Console", "Server", "Others"}

\* the keyword occurs in the string at some position
OccursIn(s, keyword) ==
    \E i \in 1..(Len(s) - Len(keyword) + 1) : SubSeq(s, i, i + Len(keyword) - 1) = keyword

\* some keyword of the list occurs in the lower-cased message
HasKeyword(message, keywords) == \E k \in Range(keywords) : OccursIn(Lower(message), k)

\* str.upper() on one character
UpperChar(c) ==
    IF \E i \in DOMAIN LowerChars : LowerChars[i] = c
    THEN UpperChars[CHOOSE i \in DOMAIN LowerChars : LowerChars[i] = c]
    ELSE c

\* the other letter case of a character
SwapChar(c) == IF UpperChar(c) # c THEN UpperChar(c) ELSE LowerChar(c)

\* the message in other letter cases: all upper, all lower, all swapped, and
\* one letter swapped
CaseVariants(message) ==
    { [i \in DOMAIN message |-> UpperChar(message[i])],
      [i \in DOMAIN message |-> LowerChar(message[i])],
      [i \in DOMAIN message |-> SwapChar(message[i])] }
    \cup { [message EXCEPT ![i] = SwapChar(@)] : i \in DOMAIN message }

\* C15: categorize_commit(m) is "Console" exactly when the lower-cased message
\* contains a Console keyword, otherwise "Server" exactly when it contains a
\* Server keyword, otherwise "Others"; a message with keywords of both sets is
\* "Console", the result is one of the three labels, and it is the same for
\* every letter case of the message.
C15_KeywordPriority ==
    op = "categorize_commit" =>
        LET m == args.message
            label == result.val
        IN  /\ result.exc = NoExc
            /\ label \in ComponentType
            /\ label = "Console" <=> HasKeyword(m, console_keywords)
            /\ label = "Server" <=>
                   (~HasKeyword(m, console_keywords) /\ HasKeyword(m, server_keywords))
            /\ label = "Others" <=>
                   (~HasKeyword(m, console_keywords) /\ ~HasKeyword(m, server_keywords))
            /\ \A v \in CaseVariants(m) : categorize_commit(v) = label

\* a message in mixed case with keywords of both sets was categorized
C15_Witness ==
    /\ op = "categorize_commit"
    /\ HasKeyword(args.message, console_keywords)
    /\ HasKeyword(args.message, server_keywords)
    /\ Lower(args.message) # args.message
    /\ result.val = "Console"

\* ------------------------------------------------------------------ C16
\* C16: group_commits_by_component returns exactly the keys Console, Server
\* and Others; each bucket holds, in input order and with duplicates, the
\* messages categorize_commit gives its label, so the sizes add up to the
\* length of the input.
C16_ThreeBuckets ==
    op = "group_commits_by_component" =>
        LET grouped == result.val
        IN  /\ result.exc = NoExc
            /\ DOMAIN grouped = ComponentType
            /\ \A label \in ComponentType :
                   grouped[label]
                       = SelectSeq(args.commits, LAMBDA c : categorize_commit(c) = label)
            /\ Len(grouped["Console"]) + Len(grouped["Server"]) + Len(grouped["Others"])
                   = Len(args.commits)

\* a bucket got two different messages that another message stood between,
\* and a bucket stayed empty
C16_Witness ==
    /\ op = "group_commits_by_component"
    /\ Len(args.commits) = 3
    /\ args.commits[1] # args.commits[3]
    /\ result.val["Console"] = <<args.commits[1], args.commits[3]>>
    /\ result.val["Server"] = <<args.commits[2]>>
    /\ result.val["Others"] = <<>>

\* ----------------------------------------------------------------- tickets.py
\* bounds of the messages and commit lists of the ticket functions
MaxParts == 2
MaxTicketCommits == 3

\* str.upper()
Upper(s) == [i \in DOMAIN s |-> UpperChar(s[i])]

\* [A-Z] under re.IGNORECASE
IsLetter(c) == c \in Range(UpperChars) \cup Range(LowerChars)

\* \d
IsDigit(c) == c \in Range(Digits)

\* [:\s]
IsSeparator(c) == c = ":" \/ c \in Whitespace

\* how many characters from position i on are letters
LetterRun(s, i) ==
    LET stop == {j \in i..(Len(s) + 1) : j = Len(s) + 1 \/ ~IsLetter(s[j])}
    IN  (CHOOSE j \in stop : \A k \in stop : j <= k) - i

\* how many characters from position i on are digits
DigitRun(s, i) ==
    LET stop == {j \in i..(Len(s) + 1) : j = Len(s) + 1 \/ ~IsDigit(s[j])}
    IN  (CHOOSE j \in stop : \A k \in stop : j <= k) - i

\* how many characters from position i on are colons or whitespace
SeparatorRun(s, i) ==
    LET stop == {j \in i..(Len(s) + 1) : j = Len(s) + 1 \/ ~IsSeparator(s[j])}
    IN  (CHOOSE j \in stop : \A k \in stop : j <= k) - i

\* the text matches at position i, ignoring letter case
LiteralAt(s, i, text) ==
    /\ i + Len(text) - 1 <= Len(s)
    /\ Lower(SubSeq(s, i, i + Len(text) - 1)) = text

\* no match / a match object: its groups (None for a group that took no part
\* in the match) and the whole match, group(0)
NoMatch == [found |-> FALSE, groups |-> <<>>, whole |-> <<>>]
Match(groups, whole) == [found |-> TRUE, groups |-> groups, whole |-> whole]

\* r"([A-Z]{2,10}-\d+)" tried at position i: two to ten letters (all that
\* follow, the hyphen is no letter), a hyphen, digits; group 1 is the match
JiraAt(s, i) ==
    LET n == LetterRun(s, i)
        d == DigitRun(s, i + n + 1)
    IN  IF /\ n >= 2 /\ n <= 10
           /\ i + n <= Len(s) /\ s[i + n] = "-"
           /\ d >= 1
        THEN Match(<<SubSeq(s, i, i + n + d)>>, SubSeq(s, i, i + n + d))
        ELSE NoMatch

\* r"#(\d+)" tried at position i: group 1 is the digits
HashAt(s, i) ==
    IF s[i] = "#" /\ DigitRun(s, i + 1) >= 1
    THEN Match(<<SubSeq(s, i + 1, i + DigitRun(s, i + 1))>>,
               SubSeq(s, i, i + DigitRun(s, i + 1)))
    ELSE NoMatch

\* r"GH-(\d+)" tried at position i: group 1 is the digits
GitHubAt(s, i) ==
    IF LiteralAt(s, i, <<"g", "h", "-">>) /\ DigitRun(s, i + 3) >= 1
    THEN Match(<<SubSeq(s, i + 3, i + 2 + DigitRun(s, i + 3))>>,
               SubSeq(s, i, i + 2 + DigitRun(s, i + 3)))
    ELSE NoMatch

\* r"(?:ticket|issue)[:\s]+#?(\d+)" tried at position i, after a word of
\* length w: separators, an optional "#", digits; group 1 is the digits
GenericAfter(s, i, w) ==
    LET sep == SeparatorRun(s, i + w)
        h == i + w + sep
        from == IF h <= Len(s) /\ s[h] = "#" THEN h + 1 ELSE h
    IN  IF sep >= 1 /\ DigitRun(s, from) >= 1
        THEN Match(<<SubSeq(s, from, from + DigitRun(s, from) - 1)>>,
                   SubSeq(s, i, from + DigitRun(s, from) - 1))
        ELSE NoMatch

GenericAt(s, i) ==
    IF LiteralAt(s, i, <<"t", "i", "c", "k", "e", "t">>) THEN GenericAfter(s, i, 6)
    ELSE IF LiteralAt(s, i, <<"i", "s", "s", "u", "e">>) THEN GenericAfter(s, i, 5)
    ELSE NoMatch

\* patterns a caller supplies, tried at position i
\* r"CUSTOM-(\d+)": one group
CustomAt(s, i) ==
    IF LiteralAt(s, i, <<"c", "u", "s", "t", "o", "m", "-">>) /\ DigitRun(s, i + 7) >= 1
    THEN Match(<<SubSeq(s, i + 7, i + 6 + DigitRun(s, i + 7))>>,
               SubSeq(s, i, i + 6 + DigitRun(s, i + 7)))
    ELSE NoMatch

\* r"TASK\d+": no group
TaskAt(s, i) ==
    IF LiteralAt(s, i, <<"t", "a", "s", "k">>) /\ DigitRun(s, i + 4) >= 1
    THEN Match(<<>>, SubSeq(s, i, i + 3 + DigitRun(s, i + 4)))
    ELSE NoMatch

\* r"T(\d+)|#(\d+)": two groups, of which one takes part in a match
EitherAt(s, i) ==
    IF LiteralAt(s, i, <<"t">>) /\ DigitRun(s, i + 1) >= 1
    THEN Match(<<SubSeq(s, i + 1, i + DigitRun(s, i + 1)), NoneStr>>,
               SubSeq(s, i, i + DigitRun(s, i + 1)))
    ELSE IF s[i] = "#" /\ DigitRun(s, i + 1) >= 1
    THEN Match(<<NoneStr, SubSeq(s, i + 1, i + DigitRun(s, i + 1))>>,
               SubSeq(s, i, i + DigitRun(s, i + 1)))
    ELSE NoMatch

\* r"v(\d*)": one group, which may be empty
VersionAt(s, i) ==
    IF LiteralAt(s, i, <<"v">>)
    THEN Match(<<SubSeq(s, i + 1, i + DigitRun(s, i + 1))>>,
               SubSeq(s, i, i + DigitRun(s, i + 1)))
    ELSE NoMatch

\* the patterns: 1 to 4 are the defaults in the listed order, 5 to 8 the
\* ones a caller supplies
PatternAt(pattern, s, i) ==
    CASE pattern = 1 -> JiraAt(s, i)
      [] pattern = 2 -> HashAt(s, i)
      [] pattern = 3 -> GitHubAt(s, i)
      [] pattern = 4 -> GenericAt(s, i)
      [] pattern = 5 -> CustomAt(s, i)
      [] pattern = 6 -> TaskAt(s, i)
      [] pattern = 7 -> EitherAt(s, i)
      [] pattern = 8 -> VersionAt(s, i)

\* re.search(pattern, message, re.IGNORECASE): the match at the leftmost
\* position that has one
Leftmost(pattern, message, at) ==
    IF at = {} THEN NoMatch
    ELSE PatternAt(pattern, message, CHOOSE i \in at : \A j \in at : i <= j)

Search(pattern, message) ==
    Leftmost(pattern, message,
             {i \in DOMAIN message : PatternAt(pattern, message, i).found})

\* match.group(1) if match.groups() else match.group(0)
GroupOrWhole(match) == IF match.groups # <<>> THEN match.groups[1] ELSE match.whole

RECURSIVE TryPatterns(_, _)
\* for pattern in patterns: match = re.search(...); if match:
\*     return match.group(1) if match.groups() else match.group(0)
\* return None
TryPatterns(patterns, message) ==
    IF patterns = <<>> THEN NoneStr
    ELSE LET match == Search(Head(patterns), message)
         IN  IF match.found THEN GroupOrWhole(match)
             ELSE TryPatterns(Tail(patterns), message)

\* patterns=None
NonePatterns == <<0>>

\* variant: the "#" pattern is tried before the project-key pattern
extract_ticket_hash_first(message, patterns) ==
    TryPatterns(IF patterns = NonePatterns THEN <<2, 1, 3, 4>> ELSE patterns, message)

\* def extract_ticket_from_message(message, patterns=None)
extract_ticket_from_message(message, patterns) ==
    TryPatterns(IF patterns = NonePatterns THEN <<1, 2, 3, 4>> ELSE patterns, message)

\* class TicketCommits(NamedTuple)
TicketCommits(ticket_id, commits) == [ticket_id |-> ticket_id, commits |-> commits]

\* variant: the identifier is kept as written
NormalizeTicketAsWritten(ticket_id) == ticket_id

\* ticket_id = ticket_id.upper()
NormalizeTicket(ticket_id) == Upper(ticket_id)

\* position of the ticket in ticket_groups (insertion order), 0 when absent
TicketIndex(ticket_groups, ticket_id) ==
    IF \E i \in DOMAIN ticket_groups : ticket_groups[i].ticket_id = ticket_id
    THEN CHOOSE i \in DOMAIN ticket_groups : ticket_groups[i].ticket_id = ticket_id
    ELSE 0

\* ticket_groups[ticket_id].append(commit), the group created when absent
AppendToGroup(ticket_groups, ticket_id, commit) ==
    IF TicketIndex(ticket_groups, ticket_id) = 0
    THEN Append(ticket_groups, TicketCommits(ticket_id, <<commit>>))
    ELSE [ticket_groups EXCEPT ![TicketIndex(ticket_groups, ticket_id)].commits =
              Append(@, commit)]

\* the body of the loop, for a commit whose extracted id is ticket_id:
\* if ticket_id: ... else: unmatched.append(commit)
TicketStep(st, commit, ticket_id) ==
    IF Truthy(ticket_id)
    THEN [st EXCEPT !.ticket_groups = AppendToGroup(@, NormalizeTicket(ticket_id), commit)]
    ELSE [st EXCEPT !.unmatched = Append(@, commit)]

RECURSIVE TicketLoop(_, _, _)
\* for commit in commits_info: ...   st = [ticket_groups, unmatched]
TicketLoop(commits_info, patterns, st) ==
    IF commits_info = <<>> THEN st
    ELSE TicketLoop(Tail(commits_info), patterns,
                    TicketStep(st, Head(commits_info),
                               extract_ticket_from_message(Head(commits_info).message,
                                                           patterns)))

\* where x goes in a list of groups sorted by ticket id ascending
InsertById(sorted, x) ==
    LET k == Cardinality({i \in DOMAIN sorted : ~StrLess(x.ticket_id, sorted[i].ticket_id)})
    IN  SubSeq(sorted, 1, k) \o <<x>> \o SubSeq(sorted, k + 1, Len(sorted))

RECURSIVE SortById(_, _)
\* sorted(ticket_groups.items())
SortById(ticket_groups, sorted) ==
    IF ticket_groups = <<>> THEN sorted
    ELSE SortById(Tail(ticket_groups), InsertById(sorted, Head(ticket_groups)))

\* def group_commits_by_ticket(commits_info, patterns=None)
\* grouped = [... for ticket_id, commits in sorted(ticket_groups.items())]
\* return grouped, unmatched
GroupedAndUnmatched(st) ==
    [grouped |-> SortById(st.ticket_groups, <<>>), unmatched |-> st.unmatched]

group_commits_by_ticket(commits_info, patterns) ==
    GroupedAndUnmatched(
        TicketLoop(commits_info, patterns, [ticket_groups |-> <<>>, unmatched |-> <<>>]))

\* pieces the messages with ticket references are put together from
TicketFragments ==
    { <<"P", "R", "O", "J", "E", "C", "T", "-", "1", "2", "3">>,
      <<":", " ", "a", "d", "d", " ", "f", "e", "a", "t", "u", "r", "e">>,
      <<"C", "l", "o", "s", "e", "s", " ">>,
      <<"#", "4", "5", "6">>,
      <<"g", "h", "-", "7">>,
      <<"i", "s", "s", "u", "e", ":", " ">>,
      <<"T", "i", "c", "k", "e", "t", ":", "\t", "#">>,
      <<"1", "2">>,
      <<"a", "b", "c", "d", "e", "f", "g", "h", "i", "j", "k">>,
      <<"-", "1">>,
      <<"x">>,
      <<"A", "B">> }

\* commit messages of up to MaxParts pieces
TicketMessages == {Concat(ps) : ps \in SeqsUpTo(TicketFragments, MaxParts)}

\* a commit with the message
TicketCommit(hash, message) ==
    CommitInfo(hash, NameAme, Strftime(Day, 0), message, <<".">>)

\* the commits the lists to group are made of
TicketPool ==
    { TicketCommit(<<"a", "1">>, <<"A", "B", "-", "2", ":", " ", "a">>),
      TicketCommit(<<"b", "2">>, <<"a", "b", "-", "1", "0">>),
      TicketCommit(<<"c", "3">>, <<"f", "i", "x", " ", "A", "b", "-", "2">>),
      TicketCommit(<<"d", "4">>, <<"C", "l", "o", "s", "e", "s", " ", "#", "4", "5", "6">>),
      TicketCommit(<<"e", "5">>, <<"n", "o", " ", "t", "i", "c", "k", "e", "t">>),
      TicketCommit(<<"f", "6">>, <<"i", "s", "s", "u", "e", " ", "7", " ", "#", "1", "0">>) }

\* the commit lists a caller holds: one commit with a message of any kind, or
\* up to MaxTicketCommits of the pool
TicketLists ==
    {<<TicketCommit(<<"0">>, message)>> : message \in TicketMessages}
    \cup SeqsUpTo(TicketPool, MaxTicketCommits)

InitTickets ==
    /\ world \in {[commits_info |-> commits_info, patterns |-> NonePatterns] :
                     commits_info \in TicketLists}
    /\ op = "none"
    /\ args = NoArgs
    /\ result = Ok(<<>>)

\* a call of extract_ticket_from_message(message, patterns) on one message
\* of the list
CallExtractTicket ==
    \E i \in DOMAIN world.commits_info :
        /\ op = "none"
        /\ op' = "extract_ticket_from_message"
        /\ args' = [message |-> world.commits_info[i].message, patterns |-> world.patterns]
        /\ result' = Ok(extract_ticket_from_message(world.commits_info[i].message,
                                                    world.patterns))
        /\ UNCHANGED world

\* a call of group_commits_by_ticket(commits_info, patterns)
CallGroupByTicket ==
    /\ op = "none"
    /\ op' = "group_commits_by_ticket"
    /\ args' = [commits_info |-> world.commits_info, patterns |-> world.patterns]
    /\ result' = Ok(group_commits_by_ticket(world.commits_info, world.patterns))
    /\ UNCHANGED world

NextTickets == CallExtractTicket \/ CallGroupByTicket \/ Return

SpecTickets == InitTickets /\ [][NextTickets]_vars

\* how many patterns a caller supplies, and how many commits are grouped
\* with them
MaxPatterns == 2
MaxCustomCommits == 2

\* the pattern lists a caller supplies: none, or up to MaxPatterns of the
\* custom patterns and the default "#" pattern
PatternLists == {NonePatterns} \cup SeqsUpTo({2, 5, 6, 7, 8}, MaxPatterns)

\* the commits the lists grouped with supplied patterns are made of
CustomPool ==
    { TicketCommit(<<"a", "1">>, <<"C", "U", "S", "T", "O", "M", "-", "1", "2", "3", ":", " ", "F", "i", "x">>),
      TicketCommit(<<"b", "2">>, <<"t", "a", "s", "k", "9", " ", "d", "o", "n", "e">>),
      TicketCommit(<<"c", "3">>, <<"f", "i", "x", " ", "#", "1", "2">>),
      TicketCommit(<<"d", "4">>, <<"T", "7", " ", "a", "n", "d", " ", "#", "8">>),
      TicketCommit(<<"e", "5">>, <<"b", "u", "m", "p", " ", "v">>),
      TicketCommit(<<"f", "6">>, <<"A", "B", "-", "1", " ", "v", "2">>),
      TicketCommit(<<"0", "7">>, <<"n", "o">>) }

InitCustomTickets ==
    /\ world \in {[commits_info |-> commits_info, patterns |-> patterns] :
                     commits_info \in SeqsUpTo(CustomPool, MaxCustomCommits) \ {<<>>},
                     patterns \in PatternLists}
    /\ op = "none"
    /\ args = NoArgs
    /\ result = Ok(<<>>)

SpecCustomTickets == InitCustomTickets /\ [][NextTickets]_vars

\* ------------------------------------------------------------------ C17
\* all characters of t from position c on are digits, at least one
DigitsFrom(t, c) == c <= Len(t) /\ \A p \in c..Len(t) : IsDigit(t[p])

\* t starts with the word, in any letter case
StartsWithWord(t, word) == Len(t) >= Len(word) /\ Lower(SubSeq(t, 1, Len(word))) = word

\* t is two to ten letters, a hyphen and digits
KeyShaped(t) ==
    \E n \in 2..10 :
        /\ Len(t) >= n + 2
        /\ \A p \in 1..n : IsLetter(t[p])
        /\ t[n + 1] = "-"
        /\ DigitsFrom(t, n + 2)

\* t is "ticket" or "issue", colons or whitespace, possibly a "#", and digits
\* from position c on
PhraseShaped(t, c) ==
    \E word \in {<<"t", "i", "c", "k", "e", "t">>, <<"i", "s", "s", "u", "e">>} :
        /\ StartsWithWord(t, word)
        /\ c >= Len(word) + 2
        /\ DigitsFrom(t, c)
        /\ \A p \in (Len(word) + 1)..(c - 1) :
               \/ IsSeparator(t[p])
               \/ p = c - 1 /\ p > Len(word) + 1 /\ t[p] = "#"

\* what group 1 is when the text t as a whole is a match of the default
\* pattern of that number (no element when it is not a match)
Groups(pattern, t) ==
    CASE pattern = 1 -> IF KeyShaped(t) THEN {t} ELSE {}
      [] pattern = 2 -> IF t[1] = "#" /\ DigitsFrom(t, 2) THEN {Tail(t)} ELSE {}
      [] pattern = 3 -> IF StartsWithWord(t, <<"g", "h", "-">>) /\ DigitsFrom(t, 4)
                        THEN {SubSeq(t, 4, Len(t))} ELSE {}
      [] pattern = 4 -> {SubSeq(t, c, Len(t)) : c \in {d \in DOMAIN t : PhraseShaped(t, d)}}

\* what group 1 can be over the matches of the pattern anywhere in the message
Captures(pattern, message) ==
    UNION { Groups(pattern, SubSeq(message, x[1], x[2])) :
            x \in {y \in (DOMAIN message) \X (DOMAIN message) : y[1] <= y[2]} }

\* the default patterns that match somewhere in the message
Matching(message) == {pattern \in 1..4 : Captures(pattern, message) # {}}

\* C17: with the default patterns, extract_ticket_from_message returns the
\* captured identifier of the first of the four patterns, in the listed order
\* and ignoring letter case, that matches anywhere in the message; a later
\* pattern decides only when no earlier one matches; the result is none
\* exactly when none matches; "PROJECT-123: add feature" gives "PROJECT-123"
\* and "Closes #456" gives "456".
C17_FirstPatternWins ==
    op = "extract_ticket_from_message" =>
        LET message == args.message
            found == Matching(message)
        IN  /\ result.exc = NoExc
            /\ result.val = NoneStr <=> found = {}
            /\ found # {} =>
                   result.val \in Captures(CHOOSE p \in found : \A q \in found : p <= q,
                                           message)
            /\ message = <<"P", "R", "O", "J", "E", "C", "T", "-", "1", "2", "3", ":", " ", "a", "d", "d", " ", "f", "e", "a", "t", "u", "r", "e">>
                   => result.val = <<"P", "R", "O", "J", "E", "C", "T", "-", "1", "2", "3">>
            /\ message = <<"C", "l", "o", "s", "e", "s", " ", "#", "4", "5", "6">> => result.val = <<"4", "5", "6">>

\* a message where "#" and digits stand before a project key: the key is
\* returned, not the number
C17_Witness ==
    /\ op = "extract_ticket_from_message"
    /\ args.message # <<>>
    /\ args.message[1] = "#"
    /\ Matching(args.message) = {1, 2}
    /\ result.val \in Captures(1, args.message)
    /\ result.val \notin Captures(2, args.message)

\* ------------------------------------------------------------------ C18
\* the identifier extracted from the message of a commit
TicketOf(commit) == extract_ticket_from_message(commit.message, NonePatterns)

\* C18: the groups of group_commits_by_ticket have upper-cased identifiers,
\* pairwise distinct and in strictly ascending string order; each group holds
\* at least one commit; commits whose identifiers differ only in letter case
\* are in one group.
C18_GroupsSortedMerged ==
    op = "group_commits_by_ticket" =>
        LET grouped == result.val.grouped
            commits == Range(args.commits_info)
        IN  /\ result.exc = NoExc
            /\ \A i \in DOMAIN grouped :
                   /\ grouped[i].ticket_id = Upper(grouped[i].ticket_id)
                   /\ grouped[i].commits # <<>>
                   /\ Range(grouped[i].commits)
                          = {c \in commits : /\ TicketOf(c) # NoneStr
                                             /\ Lower(TicketOf(c)) = Lower(grouped[i].ticket_id)}
            /\ \A i, j \in DOMAIN grouped :
                   i < j => /\ grouped[i].ticket_id # grouped[j].ticket_id
                            /\ StrLess(grouped[i].ticket_id, grouped[j].ticket_id)
            /\ \A c \in commits :
                   TicketOf(c) # NoneStr =>
                       \E i \in DOMAIN grouped : c \in Range(grouped[i].commits)

\* two commits that write one identifier in different letter cases were merged
\* into a group that sorts after the group of a commit that came later
C18_Witness ==
    /\ op = "group_commits_by_ticket"
    /\ Len(result.val.grouped) = 2
    /\ Len(result.val.grouped[2].commits) = 2
    /\ TicketOf(result.val.grouped[2].commits[1]) # TicketOf(result.val.grouped[2].commits[2])
    /\ args.commits_info[1] \in Range(result.val.grouped[2].commits)
    /\ args.commits_info[2] \in Range(result.val.grouped[1].commits)

\* --------------------------------------------------------------- exporters.py
\* bound of the commit lists handed to the exporters
MaxExportCommits == 2

\* a Python dict as its items in insertion order, or None
NoDict == [none |-> TRUE, items |-> <<>>]
Dict(items) == [none |-> FALSE, items |-> items]
Item(key, value) == [key |-> key, value |-> value]

\* `if d:` -- neither None nor empty
DictTruthy(d) == ~d.none /\ d.items # <<>>

\* key in d
HasKey(d, key) == \E i \in DOMAIN d.items : d.items[i].key = key

\* d[key]
Lookup(d, key) == d.items[CHOOSE i \in DOMAIN d.items : d.items[i].key = key].value

RECURSIVE DecimalDigits(_)
\* str(n) for n >= 0
DecimalDigits(n) ==
    IF n < 10 THEN <<Digits[n + 1]>>
    ELSE DecimalDigits(n \div 10) \o <<Digits[(n % 10) + 1]>>

\* datetime.now().strftime('%Y-%m-%d %H:%M'), now = [epoch, micro]
NowMinute(now) == Strftime(now.epoch, 0)

\* datetime.now().isoformat(): seconds always, microseconds unless zero
IsoFormat(now) ==
    LET s == Strftime(now.epoch, 0)
        micro == DecimalDigits(now.micro)
    IN  SubSeq(s, 1, 10) \o <<"T">> \o SubSeq(s, 12, 16) \o <<":">>
        \o TwoDigits(now.epoch % 60)
        \o (IF now.micro = 0 THEN <<>>
            ELSE <<".">> \o Repeat("0", 6 - Len(micro)) \o micro)

\* the JSON text is kept as its lexical tokens; joining their texts gives the
\* string json.dumps returns
Token(kind, text) == [kind |-> kind, text |-> text]
Punct(c) == Token("punct", <<c>>)

\* indent=2: a line feed and two blanks per nesting level
Indent(depth) == Token("ws", <<"\n">> \o Repeat(" ", 2 * depth))

\* variant: characters are written into the literal as they are
JsonEscapeCharRaw(c) == <<c>>

\* json.dumps on one character of a str, ensure_ascii=False
JsonEscapeChar(c) ==
    CASE c = "\"" -> <<"\\", "\"">>
      [] c = "\\" -> <<"\\", "\\">>
      [] c = "\n" -> <<"\\", "n">>
      [] c = "\r" -> <<"\\", "r">>
      [] c = "\t" -> <<"\\", "t">>
      [] OTHER -> <<c>>

\* json.dumps on a str
JsonString(s) ==
    Token("str", <<"\"">> \o Concat([i \in DOMAIN s |-> JsonEscapeChar(s[i])]) \o <<"\"">>)

\* json.dumps on an int
JsonNumber(n) == Token("num", DecimalDigits(n))

RECURSIVE JoinItems(_, _)
\* the rendered items, each on its own line, separated by commas
JoinItems(items, depth) ==
    IF items = <<>> THEN <<>>
    ELSE <<Indent(depth)>> \o Head(items)
         \o (IF Len(items) > 1 THEN <<Punct(",")>> ELSE <<>>)
         \o JoinItems(Tail(items), depth)

\* json.dumps on a list whose elements are already rendered
JsonArray(elements, depth) ==
    IF elements = <<>> THEN <<Punct("["), Punct("]")>>
    ELSE <<Punct("[")>> \o JoinItems(elements, depth + 1) \o <<Indent(depth), Punct("]")>>

\* json.dumps on a dict whose values are already rendered
JsonObject(members, depth) ==
    IF members = <<>> THEN <<Punct("{"), Punct("}")>>
    ELSE <<Punct("{")>>
         \o JoinItems([i \in DOMAIN members |->
                          <<JsonString(members[i].key), Punct(":"), Token("ws", <<" ">>)>>
                          \o members[i].value],
                      depth + 1)
         \o <<Indent(depth), Punct("}")>>

\* {"hash": c.hash, "author": c.author, "date": c.date, "message": c.message}
CommitEntry(c) ==
    <<Item(<<"h", "a", "s", "h">>, <<JsonString(c.hash)>>),
      Item(<<"a", "u", "t", "h", "o", "r">>, <<JsonString(c.author)>>),
      Item(<<"d", "a", "t", "e">>, <<JsonString(c.date)>>),
      Item(<<"m", "e", "s", "s", "a", "g", "e">>, <<JsonString(c.message)>>)>>

\* "metadata": metadata or {}   (the values are strings)
MetadataEntry(metadata) ==
    [i \in DOMAIN metadata.items |->
        Item(metadata.items[i].key, <<JsonString(metadata.items[i].value)>>)]

\* def export_to_json(commits_info, metadata=None); now is datetime.now()
export_to_json(commits_info, metadata, now) ==
    JsonObject(
        <<Item(<<"m", "e", "t", "a", "d", "a", "t", "a">>, JsonObject(MetadataEntry(metadata), 1)),
          Item(<<"c", "o", "m", "m", "i", "t", "s">>,
               JsonArray([i \in DOMAIN commits_info |->
                             JsonObject(CommitEntry(commits_info[i]), 2)], 1)),
          Item(<<"t", "o", "t", "a", "l", "_", "c", "o", "m", "m", "i", "t", "s">>, <<JsonNumber(Len(commits_info))>>),
          Item(<<"e", "x", "p", "o", "r", "t", "e", "d", "_", "a", "t">>, <<JsonString(IsoFormat(now))>>)>>,
        0)

\* one element of the list the document is joined from with "\n": the text
\* of the (f-)string as written and the values of its replacement fields
\* (a backtick is written \x60 and a bullet \u2022, as Python escapes them)
Line(template, values) == [template |-> template, values |-> values]

\* metadata.get("title", "Git Commit Report") if metadata else "Git Commit Report"
Title(metadata) ==
    IF DictTruthy(metadata) /\ HasKey(metadata, <<"t", "i", "t", "l", "e">>) THEN Lookup(metadata, <<"t", "i", "t", "l", "e">>)
    ELSE <<"G", "i", "t", " ", "C", "o", "m", "m", "i", "t", " ", "R", "e", "p", "o", "r", "t">>

\* export_to_markdown: the metadata lines
MarkdownMetadata(metadata) ==
    IF DictTruthy(metadata)
    THEN (IF HasKey(metadata, <<"d", "a", "t", "e", "_", "r", "a", "n", "g", "e">>)
          THEN <<Line("**Period:** {metadata['date_range']}\n", <<Lookup(metadata, <<"d", "a", "t", "e", "_", "r", "a", "n", "g", "e">>)>>)>>
          ELSE <<>>)
         \o (IF HasKey(metadata, <<"a", "u", "t", "h", "o", "r">>)
             THEN <<Line("**Author:** {metadata['author']}\n", <<Lookup(metadata, <<"a", "u", "t", "h", "o", "r">>)>>)>>
             ELSE <<>>)
         \o (IF HasKey(metadata, <<"t", "e", "a", "m", "_", "m", "e", "m", "b", "e", "r", "s">>)
             THEN <<Line("**Team Members:** {metadata['team_members']}\n", <<Lookup(metadata, <<"t", "e", "a", "m", "_", "m", "e", "m", "b", "e", "r", "s">>)>>)>>
             ELSE <<>>)
    ELSE <<>>

\* export_to_markdown: one table row
MarkdownRow(c) ==
    Line("| \\x60{c.hash}\\x60 | {c.author} | {c.date} | {c.message} |",
         <<c.hash, c.author, c.date, c.message>>)

\* variant: an empty group gets a section too
MarkdownSectionKeepEmpty(group) ==
    <<Line("## {group_name} ({len(group_commits)} commits)\n", <<group.key, DecimalDigits(Len(group.value))>>),
      Line("| Hash | Author | Date | Message |", <<>>),
      Line("|------|--------|------|---------|", <<>>)>>
    \o [i \in DOMAIN group.value |-> MarkdownRow(group.value[i])]
    \o <<Line("", <<>>)>>

\* export_to_markdown: the section of one group; nothing for an empty group
MarkdownSection(group) ==
    IF group.value = <<>> THEN <<>>
    ELSE <<Line("## {group_name} ({len(group_commits)} commits)\n", <<group.key, DecimalDigits(Len(group.value))>>),
           Line("| Hash | Author | Date | Message |", <<>>),
           Line("|------|--------|------|---------|", <<>>)>>
         \o [i \in DOMAIN group.value |-> MarkdownRow(group.value[i])]
         \o <<Line("", <<>>)>>

\* def export_to_markdown(commits_info, metadata=None, grouped=None)
export_to_markdown(commits_info, metadata, grouped, now) ==
    <<Line("# {title}\n", <<Title(metadata)>>)>>
    \o MarkdownMetadata(metadata)
    \o <<Line("**Total Commits:** {len(commits_info)}\n", <<DecimalDigits(Len(commits_info))>>),
         Line("**Generated:** {datetime.now().strftime('%Y-%m-%d %H:%M')}\n", <<NowMinute(now)>>),
         Line("---\n", <<>>)>>
    \o (IF DictTruthy(grouped)
        THEN Concat([i \in DOMAIN grouped.items |-> MarkdownSection(grouped.items[i])])
        ELSE <<Line("## Commits\n", <<>>),
               Line("| Hash | Author | Date | Message |", <<>>),
               Line("|------|--------|------|---------|", <<>>)>>
             \o [i \in DOMAIN commits_info |-> MarkdownRow(commits_info[i])])

\* export_to_html: the metadata block
HtmlMetadata(commits_info, metadata, now) ==
    IF DictTruthy(metadata)
    THEN <<Line("    <div class='metadata'>", <<>>)>>
         \o (IF HasKey(metadata, <<"d", "a", "t", "e", "_", "r", "a", "n", "g", "e">>)
             THEN <<Line("        <p><strong>Period:</strong> {metadata['date_range']}</p>", <<Lookup(metadata, <<"d", "a", "t", "e", "_", "r", "a", "n", "g", "e">>)>>)>>
             ELSE <<>>)
         \o (IF HasKey(metadata, <<"a", "u", "t", "h", "o", "r">>)
             THEN <<Line("        <p><strong>Author:</strong> {metadata['author']}</p>", <<Lookup(metadata, <<"a", "u", "t", "h", "o", "r">>)>>)>>
             ELSE <<>>)
         \o (IF HasKey(metadata, <<"t", "e", "a", "m", "_", "m", "e", "m", "b", "e", "r", "s">>)
             THEN <<Line("        <p><strong>Team Members:</strong> {metadata['team_members']}</p>", <<Lookup(metadata, <<"t", "e", "a", "m", "_", "m", "e", "m", "b", "e", "r", "s">>)>>)>>
             ELSE <<>>)
         \o <<Line("        <p><strong>Total Commits:</strong> {len(commits_info)}</p>", <<DecimalDigits(Len(commits_info))>>),
              Line("        <p><strong>Generated:</strong> {datetime.now().strftime('%Y-%m-%d %H:%M')}</p>", <<NowMinute(now)>>),
              Line("    </div>", <<>>)>>
    ELSE <<>>

\* export_to_html: one table row
HtmlRow(c) ==
    <<Line("        <tr>", <<>>),
      Line("            <td><span class='hash'>{c.hash}</span></td>", <<c.hash>>),
      Line("            <td>{c.author}</td>", <<c.author>>),
      Line("            <td>{c.date}</td>", <<c.date>>),
      Line("            <td>{c.message}</td>", <<c.message>>),
      Line("        </tr>", <<>>)>>

\* export_to_html: the table of one group; nothing for an empty group
HtmlSection(group) ==
    IF group.value = <<>> THEN <<>>
    ELSE <<Line("    <h2>{group_name} ({len(group_commits)} commits)</h2>", <<group.key, DecimalDigits(Len(group.value))>>),
           Line("    <table>", <<>>),
           Line("        <tr><th>Hash</th><th>Author</th><th>Date</th><th>Message</th></tr>", <<>>)>>
         \o Concat([i \in DOMAIN group.value |-> HtmlRow(group.value[i])])
         \o <<Line("    </table>", <<>>)>>

\* def export_to_html(commits_info, metadata=None, grouped=None)
export_to_html(commits_info, metadata, grouped, now) ==
    <<Line("<!DOCTYPE html>", <<>>),
      Line("<html>", <<>>),
      Line("<head>", <<>>),
      Line("    <meta charset='UTF-8'>", <<>>),
      Line("    <title>{title}</title>", <<Title(metadata)>>),
      Line("    <style>", <<>>),
      Line("        body { font-family: -apple-system, BlinkMacSystemFont, 'Segoe UI', Arial, sans-serif; max-width: 1200px; margin: 40px auto; padding: 0 20px; }", <<>>),
      Line("        h1 { color: #333; border-bottom: 3px solid #007bff; padding-bottom: 10px; }", <<>>),
      Line("        h2 { color: #555; margin-top: 30px; border-bottom: 2px solid #ddd; padding-bottom: 8px; }", <<>>),
      Line("        .metadata { background: #f8f9fa; padding: 15px; border-radius: 5px; margin: 20px 0; }", <<>>),
      Line("        .metadata p { margin: 5px 0; }", <<>>),
      Line("        table { width: 100%; border-collapse: collapse; margin: 20px 0; }", <<>>),
      Line("        th { background: #007bff; color: white; padding: 12px; text-align: left; }", <<>>),
      Line("        td { padding: 10px; border-bottom: 1px solid #ddd; }", <<>>),
      Line("        tr:hover { background: #f8f9fa; }", <<>>),
      Line("        .hash { font-family: 'Courier New', monospace; background: #e9ecef; padding: 2px 6px; border-radius: 3px; }", <<>>),
      Line("        .footer { margin-top: 40px; padding-top: 20px; border-top: 1px solid #ddd; color: #6c757d; text-align: center; }", <<>>),
      Line("    </style>", <<>>),
      Line("</head>", <<>>),
      Line("<body>", <<>>),
      Line("    <h1>{title}</h1>", <<Title(metadata)>>)>>
    \o HtmlMetadata(commits_info, metadata, now)
    \o (IF DictTruthy(grouped)
        THEN Concat([i \in DOMAIN grouped.items |-> HtmlSection(grouped.items[i])])
        ELSE <<Line("    <h2>Commits</h2>", <<>>),
               Line("    <table>", <<>>),
               Line("        <tr><th>Hash</th><th>Author</th><th>Date</th><th>Message</th></tr>", <<>>)>>
             \o Concat([i \in DOMAIN commits_info |-> HtmlRow(commits_info[i])])
             \o <<Line("    </table>", <<>>)>>)
    \o <<Line("    <div class='footer'>", <<>>),
         Line("        <p>Generated by report-bot on {datetime.now().strftime('%Y-%m-%d %H:%M')}</p>", <<NowMinute(now)>>),
         Line("    </div>", <<>>),
         Line("</body>", <<>>),
         Line("</html>", <<>>)>>

\* export_to_email: the metadata block
EmailMetadata(commits_info, metadata) ==
    IF DictTruthy(metadata)
    THEN <<Line("    <div style='background: #f0f0f0; padding: 15px; border-radius: 5px; margin: 15px 0;'>", <<>>)>>
         \o (IF HasKey(metadata, <<"d", "a", "t", "e", "_", "r", "a", "n", "g", "e">>)
             THEN <<Line("        <p style='margin: 5px 0;'><strong>Period:</strong> {metadata['date_range']}</p>", <<Lookup(metadata, <<"d", "a", "t", "e", "_", "r", "a", "n", "g", "e">>)>>)>>
             ELSE <<>>)
         \o (IF HasKey(metadata, <<"a", "u", "t", "h", "o", "r">>)
             THEN <<Line("        <p style='margin: 5px 0;'><strong>Author:</strong> {metadata['author']}</p>", <<Lookup(metadata, <<"a", "u", "t", "h", "o", "r">>)>>)>>
             ELSE <<>>)
         \o (IF HasKey(metadata, <<"t", "e", "a", "m", "_", "m", "e", "m", "b", "e", "r", "s">>)
             THEN <<Line("        <p style='margin: 5px 0;'><strong>Team Members:</strong> {metadata['team_members']}</p>", <<Lookup(metadata, <<"t", "e", "a", "m", "_", "m", "e", "m", "b", "e", "r", "s">>)>>)>>
             ELSE <<>>)
         \o <<Line("        <p style='margin: 5px 0;'><strong>Total Commits:</strong> {len(commits_info)}</p>", <<DecimalDigits(Len(commits_info))>>),
              Line("    </div>", <<>>)>>
    ELSE <<>>

\* export_to_email: one list item
EmailItem(c) ==
    <<Line("        <li style='margin: 10px 0; padding: 10px; background: #f9f9f9; border-left: 3px solid #007bff;'>", <<>>),
      Line("            <strong>{c.message}</strong><br>", <<c.message>>),
      Line("            <small style='color: #666;'>{c.author} \\u2022 {c.date} \\u2022 <code>{c.hash}</code></small>", <<c.author, c.date, c.hash>>),
      Line("        </li>", <<>>)>>

\* export_to_email: the list of one group; nothing for an empty group
EmailSection(group) ==
    IF group.value = <<>> THEN <<>>
    ELSE <<Line("    <h3 style='color: #555; margin-top: 25px;'>{group_name} ({len(group_commits)} commits)</h3>", <<group.key, DecimalDigits(Len(group.value))>>),
           Line("    <ul style='list-style-type: none; padding-left: 0;'>", <<>>)>>
         \o Concat([i \in DOMAIN group.value |-> EmailItem(group.value[i])])
         \o <<Line("    </ul>", <<>>)>>

\* def export_to_email(commits_info, metadata=None, grouped=None)
export_to_email(commits_info, metadata, grouped, now) ==
    <<Line("<!DOCTYPE html>", <<>>),
      Line("<html>", <<>>),
      Line("<head><meta charset='UTF-8'></head>", <<>>),
      Line("<body style='font-family: Arial, sans-serif; color: #333; line-height: 1.6;'>", <<>>),
      Line("    <h2 style='color: #007bff; border-bottom: 2px solid #007bff; padding-bottom: 10px;'>{title}</h2>", <<Title(metadata)>>)>>
    \o EmailMetadata(commits_info, metadata)
    \o (IF DictTruthy(grouped)
        THEN Concat([i \in DOMAIN grouped.items |-> EmailSection(grouped.items[i])])
        ELSE <<Line("    <ul style='list-style-type: none; padding-left: 0;'>", <<>>)>>
             \o Concat([i \in DOMAIN commits_info |-> EmailItem(commits_info[i])])
             \o <<Line("    </ul>", <<>>)>>)
    \o <<Line("    <hr style='margin-top: 30px; border: none; border-top: 1px solid #ddd;'>", <<>>),
         Line("    <p style='color: #999; text-align: center;'><small>Generated by report-bot on {datetime.now().strftime('%Y-%m-%d %H:%M')}</small></p>", <<NowMinute(now)>>),
         Line("</body>", <<>>),
         Line("</html>", <<>>)>>

\* ExportFormat = Literal["json", "markdown", "html", "email"]
ExportFormat == {<<"j", "s", "o", "n">>, <<"m", "a", "r", "k", "d", "o", "w", "n">>, <<"h", "t", "m", "l">>, <<"e", "m", "a", "i", "l">>}

\* variant: an unknown format falls back to an empty document
export_commits_lenient(commits_info, format, metadata, grouped, now) ==
    IF format = <<"j", "s", "o", "n">> THEN Ok(export_to_json(commits_info, metadata, now))
    ELSE IF format = <<"m", "a", "r", "k", "d", "o", "w", "n">>
    THEN Ok(export_to_markdown(commits_info, metadata, grouped, now))
    ELSE IF format = <<"h", "t", "m", "l">> THEN Ok(export_to_html(commits_info, metadata, grouped, now))
    ELSE IF format = <<"e", "m", "a", "i", "l">> THEN Ok(export_to_email(commits_info, metadata, grouped, now))
    ELSE Ok(<<>>)

\* def export_commits(commits_info, format, metadata=None, grouped=None)
export_commits(commits_info, format, metadata, grouped, now) ==
    IF format = <<"j", "s", "o", "n">> THEN Ok(export_to_json(commits_info, metadata, now))
    ELSE IF format = <<"m", "a", "r", "k", "d", "o", "w", "n">>
    THEN Ok(export_to_markdown(commits_info, metadata, grouped, now))
    ELSE IF format = <<"h", "t", "m", "l">> THEN Ok(export_to_html(commits_info, metadata, grouped, now))
    ELSE IF format = <<"e", "m", "a", "i", "l">> THEN Ok(export_to_email(commits_info, metadata, grouped, now))
    ELSE Raise("ValueError")

\* the commits the lists to export are made of
ExportPool ==
    { CommitInfo(<<"a", "b", "c", "1", "2", "3", "4">>, NameAme, Strftime(Day, 0), <<"f", "i", "x", " ", "\"", "a", "\\", "b", "\"">>, <<"w", "e", "b">>),
      CommitInfo(<<"d", "e", "f", "5", "6", "7", "8">>, NameBea, Strftime(Day + 3600, 0), <<"a", "\n", "b", "\t", "c">>, <<".">>),
      CommitInfo(<<"0", "a", "1", "b", "2", "c", "3">>, NameAme, Strftime(2 * Day, 0), <<"f", "e", "a", "t", ":", " ", "a", "d", "d">>, <<"a", "p", "i">>) }

\* metadata: None, {}, a title, and the three optional entries
ExportMetadata ==
    { NoDict, Dict(<<>>),
      Dict(<<Item(<<"t", "i", "t", "l", "e">>, <<"D", "a", "i", "l", "y">>)>>),
      Dict(<<Item(<<"d", "a", "t", "e", "_", "r", "a", "n", "g", "e">>, Strftime(Day, 0)), Item(<<"a", "u", "t", "h", "o", "r">>, NameAme),
             Item(<<"t", "e", "a", "m", "_", "m", "e", "m", "b", "e", "r", "s">>, <<"A", "m", "e", ",", " ", "B", "e", "a">>)>>) }

\* grouped: None, {}, and groups of which one is empty
ExportGroups(commits_info) ==
    { NoDict, Dict(<<>>),
      Dict(<<Item(<<"C", "o", "n", "s", "o", "l", "e">>, commits_info), Item(<<"S", "e", "r", "v", "e", "r">>, <<>>),
             Item(<<"O", "t", "h", "e", "r", "s">>, SelectSeq(commits_info, LAMBDA c : c.author = NameAme))>>) }

\* format: the four supported values and values that are not supported
ExportFormats == ExportFormat \cup {<<"p", "d", "f">>, <<"J", "S", "O", "N">>, <<>>}

\* datetime.now(): the clock readings of a run
ExportClocks == { [epoch |-> Day + 7265, micro |-> 0], [epoch |-> 3 * Day, micro |-> 1500] }

InitExport ==
    /\ world \in {[now |-> now] : now \in ExportClocks}
    /\ op = "none"
    /\ args = NoArgs
    /\ result = Ok(<<>>)

\* a call of export_to_json(commits_info, metadata)
CallExportToJson ==
    \E commits_info \in SeqsUpTo(ExportPool, MaxExportCommits), metadata \in ExportMetadata :
        /\ op = "none"
        /\ op' = "export_to_json"
        /\ args' = [commits_info |-> commits_info, metadata |-> metadata]
        /\ result' = Ok(export_to_json(commits_info, metadata, world.now))
        /\ UNCHANGED world

\* a call of export_commits(commits_info, format, metadata, grouped)
CallExportCommits ==
    \E commits_info \in SeqsUpTo(ExportPool, MaxExportCommits), format \in ExportFormats,
       metadata \in ExportMetadata :
        \E grouped \in ExportGroups(commits_info) :
            /\ op = "none"
            /\ op' = "export_commits"
            /\ args' = [commits_info |-> commits_info, format |-> format,
                        metadata |-> metadata, grouped |-> grouped]
            /\ result' = export_commits(commits_info, format, metadata, grouped, world.now)
            /\ UNCHANGED world

NextExport == CallExportToJson \/ CallExportCommits \/ Return

SpecExport == InitExport /\ [][NextExport]_vars

\* ------------------------------------------------------------ C19, C20
\* json.loads: the values a JSON text decodes to
JStr(s) == [type |-> "str", str |-> s, num |-> 0, items |-> <<>>]
JNum(n) == [type |-> "num", str |-> <<>>, num |-> n, items |-> <<>>]
JArr(items) == [type |-> "arr", str |-> <<>>, num |-> 0, items |-> items]
JObj(members) == [type |-> "obj", str |-> <<>>, num |-> 0, items |-> members]

\* a failed / successful step of the decoder: the value and the next position
Failed == [ok |-> FALSE, val |-> JNum(0), next |-> 0]
Parsed(val, next) == [ok |-> TRUE, val |-> val, next |-> next]

RECURSIVE Unescape(_)
\* the characters between the quotes of a string literal; a bare quote, a
\* bare control character or an unknown escape is an error
Unescape(inner) ==
    IF inner = <<>> THEN [ok |-> TRUE, str |-> <<>>]
    ELSE IF inner[1] = "\\"
    THEN IF Len(inner) >= 2 /\ inner[2] \in {"\"", "\\", "n", "r", "t"}
         THEN LET rest == Unescape(SubSeq(inner, 3, Len(inner)))
                  c == CASE inner[2] = "n" -> "\n"
                         [] inner[2] = "r" -> "\r"
                         [] inner[2] = "t" -> "\t"
                         [] OTHER -> inner[2]
              IN  [ok |-> rest.ok, str |-> <<c>> \o rest.str]
         ELSE [ok |-> FALSE, str |-> <<>>]
    ELSE IF inner[1] \in {"\"", "\n", "\r", "\t"} THEN [ok |-> FALSE, str |-> <<>>]
    ELSE LET rest == Unescape(Tail(inner))
         IN  [ok |-> rest.ok, str |-> <<inner[1]>> \o rest.str]

\* a string literal decoded
StringOf(text) ==
    IF Len(text) >= 2 /\ text[1] = "\"" /\ text[Len(text)] = "\""
    THEN Unescape(SubSeq(text, 2, Len(text) - 1))
    ELSE [ok |-> FALSE, str |-> <<>>]

RECURSIVE NumberOf(_)
\* a number literal decoded
NumberOf(text) ==
    IF text = <<>> THEN 0
    ELSE 10 * NumberOf(SubSeq(text, 1, Len(text) - 1))
         + (CHOOSE d \in 0..9 : Digits[d + 1] = text[Len(text)])

\* the token at position i is this punctuation mark
IsPunct(ts, i, c) == i <= Len(ts) /\ ts[i].kind = "punct" /\ ts[i].text = <<c>>

RECURSIVE ParseValue(_, _), ParseMembers(_, _, _), ParseElements(_, _, _)
\* one value starting at token i
ParseValue(ts, i) ==
    IF i > Len(ts) THEN Failed
    ELSE IF ts[i].kind = "str"
    THEN IF StringOf(ts[i].text).ok THEN Parsed(JStr(StringOf(ts[i].text).str), i + 1)
         ELSE Failed
    ELSE IF ts[i].kind = "num" THEN Parsed(JNum(NumberOf(ts[i].text)), i + 1)
    ELSE IF IsPunct(ts, i, "{")
    THEN IF IsPunct(ts, i + 1, "}") THEN Parsed(JObj(<<>>), i + 2)
         ELSE ParseMembers(ts, i + 1, <<>>)
    ELSE IF IsPunct(ts, i, "[")
    THEN IF IsPunct(ts, i + 1, "]") THEN Parsed(JArr(<<>>), i + 2)
         ELSE ParseElements(ts, i + 1, <<>>)
    ELSE Failed

\* "key": value, ... }  starting at token i
ParseMembers(ts, i, acc) ==
    IF i > Len(ts) \/ ts[i].kind # "str" \/ ~StringOf(ts[i].text).ok \/ ~IsPunct(ts, i + 1, ":")
    THEN Failed
    ELSE LET v == ParseValue(ts, i + 2)
             members == Append(acc, [key |-> StringOf(ts[i].text).str, val |-> v.val])
         IN  IF ~v.ok THEN Failed
             ELSE IF IsPunct(ts, v.next, ",") THEN ParseMembers(ts, v.next + 1, members)
             ELSE IF IsPunct(ts, v.next, "}") THEN Parsed(JObj(members), v.next + 1)
             ELSE Failed

\* value, ... ]  starting at token i
ParseElements(ts, i, acc) ==
    LET v == ParseValue(ts, i)
    IN  IF ~v.ok THEN Failed
        ELSE IF IsPunct(ts, v.next, ",") THEN ParseElements(ts, v.next + 1, Append(acc, v.val))
        ELSE IF IsPunct(ts, v.next, "]") THEN Parsed(JArr(Append(acc, v.val)), v.next + 1)
        ELSE Failed

\* json.loads(text): whitespace between the tokens is skipped, the whole
\* text must be one value
JsonLoads(tokens) ==
    LET ts == SelectSeq(tokens, LAMBDA t : t.kind # "ws")
        v == ParseValue(ts, 1)
    IN  IF v.ok /\ v.next = Len(ts) + 1 THEN v ELSE Failed

\* the keys of a decoded object, and the value under a key
KeysOf(obj) == {obj.items[i].key : i \in DOMAIN obj.items}
ValueOf(obj, key) == obj.items[CHOOSE i \in DOMAIN obj.items : obj.items[i].key = key].val

\* how many lines of the document have the template
CountTemplate(doc, template) == Cardinality({i \in DOMAIN doc : doc[i].template = template})

\* how many commits a document lists: those of the non-empty groups when
\* groups are given, else those of the list
Listed(commits_info, grouped) ==
    IF DictTruthy(grouped)
    THEN SumOver([i \in DOMAIN grouped.items |-> Len(grouped.items[i].value)],
                 DOMAIN grouped.items)
    ELSE Len(commits_info)

\* the document is whole: it decodes (json), or starts with its heading and
\* has one row per listed commit (markdown), or starts with the doctype, ends
\* with the closing tag and has one row per listed commit (html, email)
Complete(format, doc, listed) ==
    CASE format = <<"j", "s", "o", "n">> -> JsonLoads(doc).ok
      [] format = <<"m", "a", "r", "k", "d", "o", "w", "n">> ->
             /\ doc[1].template = "# {title}\n"
             /\ CountTemplate(doc, "| \\x60{c.hash}\\x60 | {c.author} | {c.date} | {c.message} |")
                    = listed
      [] format = <<"h", "t", "m", "l">> ->
             /\ doc[1].template = "<!DOCTYPE html>"
             /\ doc[Len(doc)].template = "</html>"
             /\ CountTemplate(doc, "            <td>{c.message}</td>") = listed
      [] format = <<"e", "m", "a", "i", "l">> ->
             /\ doc[1].template = "<!DOCTYPE html>"
             /\ doc[Len(doc)].template = "</html>"
             /\ CountTemplate(doc, "            <strong>{c.message}</strong><br>") = listed

\* what the exporter of the format renders for the arguments of the call
Rendering(format) ==
    CASE format = <<"j", "s", "o", "n">> -> export_to_json(args.commits_info, args.metadata, world.now)
      [] format = <<"m", "a", "r", "k", "d", "o", "w", "n">> ->
             export_to_markdown(args.commits_info, args.metadata, args.grouped, world.now)
      [] format = <<"h", "t", "m", "l">> ->
             export_to_html(args.commits_info, args.metadata, args.grouped, world.now)
      [] format = <<"e", "m", "a", "i", "l">> ->
             export_to_email(args.commits_info, args.metadata, args.grouped, world.now)

\* C19: export_commits returns the complete rendering of the matching
\* exporter when format is json, markdown, html or email; for every other
\* format value it fails with the unsupported-format error (ValueError) and
\* produces no output, never a partial document.
C19_AllOrNothing ==
    op = "export_commits" =>
        IF args.format \in {<<"j", "s", "o", "n">>, <<"m", "a", "r", "k", "d", "o", "w", "n">>, <<"h", "t", "m", "l">>, <<"e", "m", "a", "i", "l">>}
        THEN /\ result.exc = NoExc
             /\ result.val = Rendering(args.format)
             /\ Complete(args.format, result.val, Listed(args.commits_info, args.grouped))
        ELSE /\ result.exc = "ValueError"
             /\ result.val = <<>>

\* a format that differs from a supported one only in letter case was
\* refused for a list of two commits
C19_Witness ==
    /\ op = "export_commits"
    /\ args.format \notin ExportFormat
    /\ Lower(args.format) \in ExportFormat
    /\ Len(args.commits_info) = 2
    /\ result.exc = "ValueError"

\* C20: decoding export_to_json(cs) gives total_commits = len(cs) and a
\* commits array of that length whose i-th entry has exactly the hash,
\* author, date and message of cs[i] and no origin field, in input order;
\* for the empty list total_commits is 0 and commits is empty.
C20_JsonRoundTrip ==
    op = "export_to_json" =>
        LET cs == args.commits_info
            doc == JsonLoads(result.val)
            commits == ValueOf(doc.val, <<"c", "o", "m", "m", "i", "t", "s">>)
        IN  /\ result.exc = NoExc
            /\ doc.ok
            /\ doc.val.type = "obj"
            /\ {<<"c", "o", "m", "m", "i", "t", "s">>, <<"t", "o", "t", "a", "l", "_", "c", "o", "m", "m", "i", "t", "s">>} \subseteq KeysOf(doc.val)
            /\ ValueOf(doc.val, <<"t", "o", "t", "a", "l", "_", "c", "o", "m", "m", "i", "t", "s">>) = JNum(Len(cs))
            /\ commits.type = "arr"
            /\ Len(commits.items) = Len(cs)
            /\ \A i \in DOMAIN cs :
                   /\ commits.items[i].type = "obj"
                   /\ Len(commits.items[i].items) = 4
                   /\ KeysOf(commits.items[i]) = {<<"h", "a", "s", "h">>, <<"a", "u", "t", "h", "o", "r">>, <<"d", "a", "t", "e">>, <<"m", "e", "s", "s", "a", "g", "e">>}
                   /\ ValueOf(commits.items[i], <<"h", "a", "s", "h">>) = JStr(cs[i].hash)
                   /\ ValueOf(commits.items[i], <<"a", "u", "t", "h", "o", "r">>) = JStr(cs[i].author)
                   /\ ValueOf(commits.items[i], <<"d", "a", "t", "e">>) = JStr(cs[i].date)
                   /\ ValueOf(commits.items[i], <<"m", "e", "s", "s", "a", "g", "e">>) = JStr(cs[i].message)
            /\ cs = <<>> => /\ ValueOf(doc.val, <<"t", "o", "t", "a", "l", "_", "c", "o", "m", "m", "i", "t", "s">>) = JNum(0)
                            /\ commits = JArr(<<>>)

\* two different commits were exported whose messages need escaping and of
\* which one has an origin of its own
C20_Witness ==
    /\ op = "export_to_json"
    /\ Len(args.commits_info) = 2
    /\ args.commits_info[1].message # args.commits_info[2].message
    /\ \A i \in 1..2 :
           \E k \in DOMAIN args.commits_info[i].message :
               args.commits_info[i].message[k] \in {"\"", "\\", "\n", "\t"}
    /\ \E i \in 1..2 : args.commits_info[i].repo # <<".">>
    /\ JsonLoads(result.val).ok

\* ------------------------------------------------------------------ C21
\* the formats that take groups
Grouping == {<<"m", "a", "r", "k", "d", "o", "w", "n">>, <<"h", "t", "m", "l">>, <<"e", "m", "a", "i", "l">>}

\* what a reader finds in a document: the heading of a group, the opening of
\* a table or list, a listed commit
NoRow == [hash |-> <<>>, author |-> <<>>, date |-> <<>>, message |-> <<>>]
GroupHeading(name, count) == [kind |-> "group", name |-> name, count |-> count, row |-> NoRow]
ListOpening == [kind |-> "list", name |-> <<>>, count |-> <<>>, row |-> NoRow]
Listing(hash, author, date, message) ==
    [kind |-> "commit", name |-> <<>>, count |-> <<>>,
     row |-> [hash |-> hash, author |-> author, date |-> date, message |-> message]]

\* the line that heads a group, and the line that opens a table or list
HeadingTemplate(format) ==
    CASE format = <<"m", "a", "r", "k", "d", "o", "w", "n">> -> "## {group_name} ({len(group_commits)} commits)\n"
      [] format = <<"h", "t", "m", "l">> -> "    <h2>{group_name} ({len(group_commits)} commits)</h2>"
      [] format = <<"e", "m", "a", "i", "l">> ->
             "    <h3 style='color: #555; margin-top: 25px;'>{group_name} ({len(group_commits)} commits)</h3>"
OpeningTemplate(format) ==
    CASE format = <<"m", "a", "r", "k", "d", "o", "w", "n">> -> "| Hash | Author | Date | Message |"
      [] format = <<"h", "t", "m", "l">> -> "    <table>"
      [] format = <<"e", "m", "a", "i", "l">> -> "    <ul style='list-style-type: none; padding-left: 0;'>"

\* what line i of the document shows, if anything
Shown(doc, format, i) ==
    IF doc[i].template = HeadingTemplate(format)
    THEN <<GroupHeading(doc[i].values[1], doc[i].values[2])>>
    ELSE IF doc[i].template = OpeningTemplate(format) THEN <<ListOpening>>
    ELSE IF /\ format = <<"m", "a", "r", "k", "d", "o", "w", "n">>
            /\ doc[i].template = "| \\x60{c.hash}\\x60 | {c.author} | {c.date} | {c.message} |"
    THEN <<Listing(doc[i].values[1], doc[i].values[2], doc[i].values[3], doc[i].values[4])>>
    ELSE IF /\ format = <<"h", "t", "m", "l">>
            /\ doc[i].template = "            <td><span class='hash'>{c.hash}</span></td>"
            /\ i + 3 <= Len(doc)
    THEN <<Listing(doc[i].values[1], doc[i + 1].values[1], doc[i + 2].values[1],
                   doc[i + 3].values[1])>>
    ELSE IF /\ format = <<"e", "m", "a", "i", "l">>
            /\ doc[i].template = "            <strong>{c.message}</strong><br>"
            /\ i + 1 <= Len(doc)
    THEN <<Listing(doc[i + 1].values[3], doc[i + 1].values[1], doc[i + 1].values[2],
                   doc[i].values[1])>>
    ELSE <<>>

\* the headings, openings and commits of a document, top to bottom
Outline(doc, format) == Concat([i \in DOMAIN doc |-> Shown(doc, format, i)])

\* the commits of a list as a reader finds them
Listings(commits) ==
    [i \in DOMAIN commits |->
        Listing(commits[i].hash, commits[i].author, commits[i].date, commits[i].message)]

\* one section per group: heading with name and count, then the commits
Sections(groups) ==
    Concat([i \in DOMAIN groups |->
               <<GroupHeading(groups[i].key, DecimalDigits(Len(groups[i].value))), ListOpening>>
               \o Listings(groups[i].value)])

\* one flat list of all the commits
FlatList(commits_info) == <<ListOpening>> \o Listings(commits_info)

\* C21 as stated: when groups is supplied to the markdown, html or email
\* exporter the output has exactly one section per supplied group, in
\* iteration order, headed by name and count and listing the group's commits
\* in order, and no flat list; when groups is not supplied the output is one
\* flat list of all commits in input order.
C21_SectionPerGroup ==
    (op = "export_commits" /\ args.format \in Grouping) =>
        Outline(result.val, args.format)
            = IF args.grouped.none THEN FlatList(args.commits_info)
              ELSE Sections(args.grouped.items)

\* C21: when groups is supplied and holds at least one group, the output has
\* exactly one section per supplied group that has commits (a group without
\* commits is left out), in iteration order, headed by name and count and
\* listing the group's commits in order, and no flat list; when groups is
\* not supplied or holds no group, the output is one flat list of all commits
\* in input order.
C21_SectionPerNonEmptyGroup ==
    (op = "export_commits" /\ args.format \in Grouping) =>
        /\ result.exc = NoExc
        /\ Outline(result.val, args.format)
               = IF args.grouped.none \/ args.grouped.items = <<>>
                 THEN FlatList(args.commits_info)
                 ELSE Sections(SelectSeq(args.grouped.items, LAMBDA g : g.value # <<>>))

\* three groups were supplied for two different commits: the first holds
\* both, the second none, the third one of them
C21_Witness ==
    /\ op = "export_commits"
    /\ args.format \in Grouping
    /\ Len(args.commits_info) = 2
    /\ args.commits_info[1] # args.commits_info[2]
    /\ ~args.grouped.none
    /\ Len(args.grouped.items) = 3
    /\ Len(args.grouped.items[1].value) = 2
    /\ args.grouped.items[2].value = <<>>
    /\ Len(args.grouped.items[3].value) = 1
    /\ Len(Outline(result.val, args.format)) = 7

\* --------------------------------------------------------- shared/dates.py
\* how many midnights pass during a run
MaxTicks == 2

\* datetime.MINYEAR, datetime.MAXYEAR
MINYEAR == 1
MAXYEAR == 9999

\* datetime.date as year, month, day
Date(year, month, day) == [year |-> year, month |-> month, day |-> day]

\* calendar.isleap
IsLeap(year) == year % 4 = 0 /\ (year % 100 # 0 \/ year % 400 = 0)

\* the days of a month
DaysInMonth(year, month) ==
    IF month = 2 THEN (IF IsLeap(year) THEN 29 ELSE 28)
    ELSE IF month \in {4, 6, 9, 11} THEN 30
    ELSE 31

\* the days before 1 January of the year
DaysBeforeYear(year) ==
    LET y == year - 1 IN y * 365 + (y \div 4) - (y \div 100) + (y \div 400)

RECURSIVE DaysBeforeMonth(_, _)
\* the days of the year before the first of the month
DaysBeforeMonth(year, month) ==
    IF month = 1 THEN 0
    ELSE DaysBeforeMonth(year, month - 1) + DaysInMonth(year, month - 1)

\* date.toordinal(): 0001-01-01 is day 1
ToOrdinal(d) == DaysBeforeYear(d.year) + DaysBeforeMonth(d.year, d.month) + d.day

\* date.max.toordinal()
MaxOrdinal == DaysBeforeYear(MAXYEAR + 1)

\* date.fromordinal(n) for 1 <= n <= MaxOrdinal
FromOrdinal(n) ==
    LET n0 == n - 1
        n400 == n0 \div 146097
        r400 == n0 % 146097
        n100 == r400 \div 36524
        r100 == r400 % 36524
        n4 == r100 \div 1461
        r4 == r100 % 1461
        n1 == r4 \div 365
        r1 == r4 % 365
        year == n400 * 400 + 1 + n100 * 100 + n4 * 4 + n1
    IN  IF n1 = 4 \/ n100 = 4 THEN Date(year - 1, 12, 31)
        ELSE LET month == CHOOSE m \in 1..12 :
                              /\ DaysBeforeMonth(year, m) <= r1
                              /\ r1 < DaysBeforeMonth(year, m) + DaysInMonth(year, m)
             IN  Date(year, month, r1 - DaysBeforeMonth(year, month) + 1)

\* date.weekday(): Monday is 0
Weekday(d) == (ToOrdinal(d) + 6) % 7

\* date(year, month, day)
NewDate(year, month, day) ==
    IF /\ MINYEAR <= year /\ year <= MAXYEAR
       /\ 1 <= month /\ month <= 12
       /\ 1 <= day /\ day <= DaysInMonth(year, month)
    THEN Ok(Date(year, month, day))
    ELSE Raise("ValueError")

\* d + timedelta(days=days); timedelta takes up to 999999999 days
AddDays(d, days) ==
    IF days > 999999999 \/ days < -999999999 THEN Raise("OverflowError")
    ELSE IF 1 <= ToOrdinal(d) + days /\ ToOrdinal(d) + days <= MaxOrdinal
    THEN Ok(FromOrdinal(ToOrdinal(d) + days))
    ELSE Raise("OverflowError")

\* datetime.time
Time(hour, minute, second, microsecond) ==
    [hour |-> hour, minute |-> minute, second |-> second, microsecond |-> microsecond]

\* time.min, time.max
TimeMin == Time(0, 0, 0, 0)
TimeMax == Time(23, 59, 59, 999999)

\* datetime.combine(date, time)
Combine(d, t) == [date |-> d, time |-> t]

\* variant: the window ends at the midnight its last day starts with
FullDaysToMidnight(first, last) ==
    Ok([start |-> Combine(first, TimeMin), end |-> Combine(last, TimeMin)])

\* start = datetime.combine(first, time.min); end = datetime.combine(last, time.max)
FullDays(first, last) ==
    Ok([start |-> Combine(first, TimeMin), end |-> Combine(last, TimeMax)])

\* def today_range()
today_range(today) == FullDays(today, today)

\* def yesterday_range()
yesterday_range(today) ==
    LET yesterday == AddDays(today, -1)
    IN  IF yesterday.exc # NoExc THEN yesterday
        ELSE FullDays(yesterday.val, yesterday.val)

\* def this_week_range()
this_week_range(today) ==
    LET start_of_week == AddDays(today, -Weekday(today))
    IN  IF start_of_week.exc # NoExc THEN start_of_week
        ELSE LET end_of_week == AddDays(start_of_week.val, 6)
             IN  IF end_of_week.exc # NoExc THEN end_of_week
                 ELSE FullDays(start_of_week.val, end_of_week.val)

\* def last_week_range()
last_week_range(today) ==
    LET start_of_this_week == AddDays(today, -Weekday(today))
    IN  IF start_of_this_week.exc # NoExc THEN start_of_this_week
        ELSE LET start_of_last_week == AddDays(start_of_this_week.val, -7)
             IN  IF start_of_last_week.exc # NoExc THEN start_of_last_week
                 ELSE LET end_of_last_week == AddDays(start_of_last_week.val, 6)
                      IN  IF end_of_last_week.exc # NoExc THEN end_of_last_week
                          ELSE FullDays(start_of_last_week.val, end_of_last_week.val)

\* the number a run of decimal digits stands for
RECURSIVE DigitsValue(_)
DigitsValue(s) ==
    IF s = <<>> THEN 0
    ELSE 10 * DigitsValue(SubSeq(s, 1, Len(s) - 1))
         + (CHOOSE n \in 0..9 : Digits[n + 1] = s[Len(s)])

\* the character at position i, none past the end
CharAt(s, i) == IF i \in DOMAIN s THEN s[i] ELSE ""

\* the directive %m at position i: 1[0-2] | 0[1-9] | [1-9], in this order;
\* the lengths of the alternatives that match
MonthLengths(s, i) ==
    (IF CharAt(s, i) = "1" /\ CharAt(s, i + 1) \in {"0", "1", "2"} THEN <<2>> ELSE <<>>)
    \o (IF CharAt(s, i) = "0" /\ CharAt(s, i + 1) \in Range(Digits) \ {"0"} THEN <<2>> ELSE <<>>)
    \o (IF CharAt(s, i) \in Range(Digits) \ {"0"} THEN <<1>> ELSE <<>>)

\* the directive %d at position i: 3[0-1] | [1-2]\d | 0[1-9] | [1-9] | " "[1-9],
\* in this order; the lengths of the alternatives that match
DayLengths(s, i) ==
    (IF CharAt(s, i) = "3" /\ CharAt(s, i + 1) \in {"0", "1"} THEN <<2>> ELSE <<>>)
    \o (IF CharAt(s, i) \in {"1", "2"} /\ CharAt(s, i + 1) \in Range(Digits) THEN <<2>> ELSE <<>>)
    \o (IF CharAt(s, i) = "0" /\ CharAt(s, i + 1) \in Range(Digits) \ {"0"} THEN <<2>> ELSE <<>>)
    \o (IF CharAt(s, i) \in Range(Digits) \ {"0"} THEN <<1>> ELSE <<>>)
    \o (IF CharAt(s, i) = " " /\ CharAt(s, i + 1) \in Range(Digits) \ {"0"} THEN <<2>> ELSE <<>>)

\* the month alternatives after which "-" and a day follow
MonthChoices(s) ==
    SelectSeq(MonthLengths(s, 6),
              LAMBDA n : CharAt(s, 6 + n) = "-" /\ DayLengths(s, 7 + n) # <<>>)

\* datetime.strptime(s, "%Y-%m-%d").date(): four digits, "-", month, "-",
\* day matched from the start of s, the first way that matches; text left
\* over, or a year, month and day that are no date, is a ValueError
Strptime(s) ==
    IF /\ Len(s) >= 5
       /\ \A i \in 1..4 : s[i] \in Range(Digits)
       /\ s[5] = "-"
       /\ MonthChoices(s) # <<>>
    THEN LET m == MonthChoices(s)[1]
             d == DayLengths(s, 7 + m)[1]
             digits(from, n) == SelectSeq(SubSeq(s, from, from + n - 1),
                                          LAMBDA c : c # " ")
         IN  IF 6 + m + d # Len(s) THEN Raise("ValueError")
             ELSE NewDate(DigitsValue(SubSeq(s, 1, 4)), DigitsValue(digits(6, m)),
                          DigitsValue(digits(7 + m, d)))
    ELSE Raise("ValueError")

\* def custom_range(from_date, to_date)
custom_range(from_date, to_date) ==
    LET start_date == Strptime(from_date)
        end_date == Strptime(to_date)
    IN  IF start_date.exc # NoExc \/ end_date.exc # NoExc THEN Raise("ValueError")
        ELSE IF ToOrdinal(start_date.val) > ToOrdinal(end_date.val) THEN Raise("ValueError")
        ELSE FullDays(start_date.val, end_date.val)

\* variant: the window starts a whole `days` days before today
last_n_days_range_exclusive(days, today) ==
    IF days < 1 THEN Raise("ValueError")
    ELSE LET start_date == AddDays(today, -days)
         IN  IF start_date.exc # NoExc THEN start_date
             ELSE FullDays(start_date.val, today)

\* def last_n_days_range(days)
last_n_days_range(days, today) ==
    IF days < 1 THEN Raise("ValueError")
    ELSE LET start_date == AddDays(today, -(days - 1))
         IN  IF start_date.exc # NoExc THEN start_date
             ELSE FullDays(start_date.val, today)

\* def month_range(year, month)
month_range(year, month) ==
    IF ~(1 <= month /\ month <= 12) THEN Raise("ValueError")
    ELSE LET start_date == NewDate(year, month, 1)
             next_month == IF month = 12 THEN NewDate(year + 1, 1, 1)
                           ELSE NewDate(year, month + 1, 1)
         IN  IF start_date.exc # NoExc THEN start_date
             ELSE IF next_month.exc # NoExc THEN next_month
             ELSE LET end_date == AddDays(next_month.val, -1)
                  IN  IF end_date.exc # NoExc THEN end_date
                      ELSE FullDays(start_date.val, end_date.val)

\* date.today() when a run starts
Clocks == {Date(2023, 12, 30), Date(2024, 2, 27), Date(2024, 12, 29)}

\* the texts handed to custom_range
DateStrings ==
    { <<"2", "0", "2", "4", "-", "0", "1", "-", "1", "5">>, <<"2", "0", "2", "4", "-", "0", "1", "-", "3", "1">>, <<"2", "0", "2", "4", "-", "0", "2", "-", "2", "9">>, <<"2", "0", "2", "3", "-", "0", "2", "-", "2", "9">>, <<"2", "0", "2", "4", "-", "1", "-", "5">>, <<"2", "0", "2", "4", "-", "0", "1", "-", " ", "5">>,
      <<"0", "1", "-", "0", "1", "-", "2", "0", "2", "4">>, <<"2", "0", "2", "4", "-", "0", "1", "-", "1", "5", "x">>, <<"2", "0", "2", "4", "-", "1", "3", "-", "0", "1">>, <<"0", "0", "0", "0", "-", "0", "1", "-", "0", "1">>, <<"9", "9", "9", "9", "-", "1", "2", "-", "3", "1">>, <<>> }

\* the day counts handed to last_n_days_range
DayCounts == {-5, 0, 1, 2, 7, 30, 366, 800000, 1000000001}

\* the years and months handed to month_range
Years == {0, 1, 1900, 2000, 2023, 2024, 9999, 10000}
Months == 0..13

InitDates ==
    /\ world \in {[today |-> today, ticks |-> 0] : today \in Clocks}
    /\ op = "none"
    /\ args = NoArgs
    /\ result = Ok(<<>>)

\* midnight passes
Tick ==
    /\ op = "none"
    /\ world.ticks < MaxTicks
    /\ world' = [today |-> AddDays(world.today, 1).val, ticks |-> world.ticks + 1]
    /\ UNCHANGED <<op, args, result>>

\* a call of one of the helpers that take no argument
CallClockRange ==
    \E name \in {"today_range", "yesterday_range", "this_week_range", "last_week_range"} :
        /\ op = "none"
        /\ op' = name
        /\ args' = NoArgs
        /\ result' = CASE name = "today_range" -> today_range(world.today)
                       [] name = "yesterday_range" -> yesterday_range(world.today)
                       [] name = "this_week_range" -> this_week_range(world.today)
                       [] name = "last_week_range" -> last_week_range(world.today)
        /\ UNCHANGED world

\* a call of custom_range(from_date, to_date)
CallCustomRange ==
    \E from_date \in DateStrings, to_date \in DateStrings :
        /\ op = "none"
        /\ op' = "custom_range"
        /\ args' = [from_date |-> from_date, to_date |-> to_date]
        /\ result' = custom_range(from_date, to_date)
        /\ UNCHANGED world

\* a call of last_n_days_range(days)
CallLastNDays ==
    \E days \in DayCounts :
        /\ op = "none"
        /\ op' = "last_n_days_range"
        /\ args' = [days |-> days]
        /\ result' = last_n_days_range(days, world.today)
        /\ UNCHANGED world

\* a call of month_range(year, month)
CallMonthRange ==
    \E year \in Years, month \in Months :
        /\ op = "none"
        /\ op' = "month_range"
        /\ args' = [year |-> year, month |-> month]
        /\ result' = month_range(year, month)
        /\ UNCHANGED world

NextDates ==
    Tick \/ CallClockRange \/ CallCustomRange \/ CallLastNDays \/ CallMonthRange \/ Return

SpecDates == InitDates /\ [][NextDates]_vars

\* ------------------------------------------------------------- C22 .. C25
\* the range helpers
RangeHelpers ==
    {"today_range", "yesterday_range", "this_week_range", "last_week_range",
     "custom_range", "last_n_days_range", "month_range"}

\* a helper returned a window
WindowReturned == op \in RangeHelpers /\ result.exc = NoExc

\* datetime a < datetime b
Earlier(a, b) ==
    LET ta == <<ToOrdinal(a.date), a.time.hour, a.time.minute, a.time.second, a.time.microsecond>>
        tb == <<ToOrdinal(b.date), b.time.hour, b.time.minute, b.time.second, b.time.microsecond>>
    IN  \E i \in 1..5 : ta[i] < tb[i] /\ \A j \in 1..(i - 1) : ta[j] = tb[j]

\* C22: every window returned by a range helper (today, yesterday,
\* this-week, last-week, last-N-days, month, custom) starts at 00:00:00 of its
\* first day, ends at 23:59:59 of its last day and has start date <= end
\* date, so start < end even for a single-day window.
C22_FullDays ==
    WindowReturned =>
        LET start == result.val.start
            end == result.val.end
        IN  /\ start.time = Time(0, 0, 0, 0)
            /\ end.time.hour = 23 /\ end.time.minute = 59 /\ end.time.second = 59
            /\ ToOrdinal(start.date) <= ToOrdinal(end.date)
            /\ Earlier(start, end)

\* a window of one day was returned for a date written out twice
C22_Witness ==
    /\ op = "custom_range"
    /\ args.from_date = args.to_date
    /\ result.exc = NoExc
    /\ result.val.start.date = result.val.end.date
    /\ result.val.start # result.val.end

\* C23 as stated: for every n >= 1 and every current date,
\* last_n_days_range(n) ends on today's date and starts exactly n-1 days
\* earlier; last_n_days_range(1) covers the dates of today_range() and
\* last_n_days_range(7) spans 6 days.
C23_SpansNDays ==
    (op = "last_n_days_range" /\ args.days >= 1) =>
        /\ result.exc = NoExc
        /\ result.val.end.date = world.today
        /\ ToOrdinal(result.val.end.date) - ToOrdinal(result.val.start.date) = args.days - 1
        /\ args.days = 1 =>
               /\ result.val.start.date = today_range(world.today).val.start.date
               /\ result.val.end.date = today_range(world.today).val.end.date
        /\ args.days = 7 =>
               ToOrdinal(result.val.end.date) - ToOrdinal(result.val.start.date) = 6

\* C23: for every n >= 1 and every current date such that the day n-1 days
\* before today is a date of the calendar (0001-01-01 or later),
\* last_n_days_range(n) ends on today's date and starts exactly n-1 days
\* earlier, so n = 1 covers the dates of today_range() and n = 7 spans 6
\* days; for larger n the call fails with OverflowError and returns no window.
C23_SpansNDaysIfRepresentable ==
    (op = "last_n_days_range" /\ args.days >= 1) =>
        IF args.days - 1 < ToOrdinal(world.today)
        THEN /\ result.exc = NoExc
             /\ result.val.end.date = world.today
             /\ ToOrdinal(result.val.end.date) - ToOrdinal(result.val.start.date)
                    = args.days - 1
             /\ args.days = 1 =>
                    /\ result.val.start.date = today_range(world.today).val.start.date
                    /\ result.val.end.date = today_range(world.today).val.end.date
             /\ args.days = 7 =>
                    ToOrdinal(result.val.end.date) - ToOrdinal(result.val.start.date) = 6
        ELSE result = Raise("OverflowError")

\* seven days were asked for in the first days of a year: the window
\* starts in the year before
C23_Witness ==
    /\ op = "last_n_days_range"
    /\ args.days = 7
    /\ result.exc = NoExc
    /\ result.val.end.date = world.today
    /\ result.val.start.date.year < world.today.year

\* the last day of a month of the Gregorian calendar
LastDay(year, month) ==
    IF month = 2
    THEN (IF year % 400 = 0 \/ (year % 4 = 0 /\ year % 100 # 0) THEN 29 ELSE 28)
    ELSE <<31, 0, 31, 30, 31, 30, 31, 31, 30, 31, 30, 31>>[month]

\* C24: for every year (of the calendar, 1 to 9999) and every month in
\* 1..12, month_range(year, month) starts on day 1 of that month and ends on
\* the last calendar day of the same month and year: 31 December for month
\* 12, 29 February exactly in leap years and 28 February otherwise.
C24_WholeMonth ==
    (/\ op = "month_range"
     /\ args.year \in 1..9999
     /\ args.month \in 1..12) =>
        /\ result.exc = NoExc
        /\ result.val.start.date = Date(args.year, args.month, 1)
        /\ result.val.end.date = Date(args.year, args.month, LastDay(args.year, args.month))

\* the text is a date written YYYY-MM-DD
WellFormed(s) ==
    /\ Len(s) = 10
    /\ \A i \in {1, 2, 3, 4, 6, 7, 9, 10} : s[i] \in Range(Digits)
    /\ s[5] = "-" /\ s[8] = "-"
    /\ LET year == DigitsValue(SubSeq(s, 1, 4))
           month == DigitsValue(SubSeq(s, 6, 7))
           day == DigitsValue(SubSeq(s, 9, 10))
       IN  /\ year \in 1..9999
           /\ month \in 1..12
           /\ day \in 1..LastDay(year, month)

\* YYYY-MM-DD texts compare like the dates they stand for
After(s, t) == \E i \in 1..10 : Ord(s[i]) > Ord(t[i]) /\ \A j \in 1..(i - 1) : s[j] = t[j]

\* C25: custom_range with a start date after the end date or with a
\* malformed date string, month_range with a month outside 1..12 and
\* last_n_days_range with a day count below 1 each fail with the
\* invalid-range error (ValueError) and return no window; custom_range with
\* equal start and end dates succeeds with a one-day window.
C25_InvalidRanges ==
    /\ op = "custom_range" =>
           IF ~WellFormed(args.from_date) \/ ~WellFormed(args.to_date)
           THEN result = Raise("ValueError")
           ELSE IF After(args.from_date, args.to_date) THEN result = Raise("ValueError")
           ELSE /\ result.exc = NoExc
                /\ args.from_date = args.to_date =>
                       result.val.start.date = result.val.end.date
    /\ (op = "month_range" /\ args.month \notin 1..12) => result = Raise("ValueError")
    /\ (op = "last_n_days_range" /\ args.days < 1) => result = Raise("ValueError")

\* ------------------------------------- commits.py: repository discovery
\* how many repositories a directory tree holds, and the deepest limit asked
MaxRepos == 2
MaxDepth == 3

\* the directories of the tree that is searched
TreeDirs ==
    { <<>>, <<"w">>, <<"w", "a">>, <<"w", "a", "x">>, <<"w", "a", "x", "y">>,
      <<"w", "b">>, <<"w", "b", "x">>, <<"w", ".h">>, <<"w", ".h", "x">> }

\* the entry names, in the two orders os.listdir may give them
EntryNames == <<".h", "a", "b", "x", "y">>
Reversed(s) == [i \in DOMAIN s |-> s[Len(s) + 1 - i]]

\* entry.startswith(".")
StartsWithDot(entry) == entry \in {".h"}

\* os.path.isdir(path)
IsDir(fs, path) == path \in fs.dirs

\* git.Repo(path): path itself must be the root of a repository
RepoAt(fs, path) ==
    IF ~IsDir(fs, path) THEN Raise("NoSuchPathError")
    ELSE IF path \in fs.roots THEN Ok(path)
    ELSE Raise("InvalidGitRepositoryError")

\* os.listdir(path): the entries in an order of the system's choosing
Listdir(fs, path) ==
    IF ~IsDir(fs, path) THEN Raise("OSError")
    ELSE IF path \in fs.unreadable THEN Raise("PermissionError")
    ELSE Ok(SelectSeq(IF fs.reversed THEN Reversed(EntryNames) ELSE EntryNames,
                      LAMBDA entry : IsDir(fs, Append(path, entry))))

RECURSIVE _search_into_repos(_, _, _, _)
\* variant: the search goes on below a repository
_search_into_repos(fs, max_depth, path, depth) ==
    IF depth > max_depth THEN <<>>
    ELSE LET entries == Listdir(fs, path)
         IN  (IF RepoAt(fs, path).exc = NoExc THEN <<path>> ELSE <<>>)
             \o (IF entries.exc # NoExc THEN <<>>
                 ELSE Concat([i \in DOMAIN entries.val |->
                         IF /\ IsDir(fs, Append(path, entries.val[i]))
                            /\ ~StartsWithDot(entries.val[i])
                         THEN _search_into_repos(fs, max_depth, Append(path, entries.val[i]),
                                                 depth + 1)
                         ELSE <<>>]))

RECURSIVE _search(_, _, _, _)
\* def _search(path, depth): what the call appends to repos; path exists
_search(fs, max_depth, path, depth) ==
    IF depth > max_depth THEN <<>>
    ELSE IF RepoAt(fs, path).exc = NoExc THEN <<path>>
    ELSE LET entries == Listdir(fs, path)
         IN  IF entries.exc # NoExc THEN <<>>
             ELSE Concat([i \in DOMAIN entries.val |->
                     IF /\ IsDir(fs, Append(path, entries.val[i]))
                        /\ ~StartsWithDot(entries.val[i])
                     THEN _search(fs, max_depth, Append(path, entries.val[i]), depth + 1)
                     ELSE <<>>])

\* def discover_repos_in_directory(base_path, max_depth=2); Repo(base_path)
\* on a path that does not exist raises NoSuchPathError, which no except
\* clause of _search names
discover_repos_in_directory(fs, base_path, max_depth) ==
    IF 0 <= max_depth /\ ~IsDir(fs, base_path)
    THEN Raise("NoSuchPathError")
    ELSE Ok(_search(fs, max_depth, base_path, 0))

\* the sets of at most n elements of S
RECURSIVE SubsetsUpTo(_, _)
SubsetsUpTo(S, n) ==
    IF n = 0 THEN {{}}
    ELSE SubsetsUpTo(S, n - 1) \cup {T \cup {x} : T \in SubsetsUpTo(S, n - 1), x \in S}

\* the trees: which directories are repositories, which cannot be listed
Trees ==
    { [dirs |-> TreeDirs, roots |-> roots, unreadable |-> unreadable, reversed |-> reversed] :
        roots \in SubsetsUpTo(TreeDirs \ {<<>>}, MaxRepos),
        unreadable \in SubsetsUpTo(TreeDirs \ {<<>>}, 1),
        reversed \in BOOLEAN }

\* the directories the search is started at
BasePaths == {<<"w">>, <<"w", "a">>, <<"w", "gone">>}

InitDiscover ==
    /\ world \in Trees
    /\ op = "none"
    /\ args = NoArgs
    /\ result = Ok(<<>>)

\* a call of discover_repos_in_directory(base_path, max_depth)
CallDiscover ==
    \E base_path \in BasePaths, max_depth \in -1..MaxDepth :
        /\ op = "none"
        /\ op' = "discover_repos_in_directory"
        /\ args' = [base_path |-> base_path, max_depth |-> max_depth]
        /\ result' = discover_repos_in_directory(world, base_path, max_depth)
        /\ UNCHANGED world

NextDiscover == CallDiscover \/ Return

SpecDiscover == InitDiscover /\ [][NextDiscover]_vars

\* ------------------------------------------------------------------ C26
\* a is an ancestor directory of d
Ancestor(a, d) == Len(a) < Len(d) /\ IsPrefix(a, d)

\* the directories at depth <= max_depth below base that resolve as
\* repositories (base itself is depth 0)
Candidates(fs, base, max_depth) ==
    {d \in fs.dirs : /\ IsPrefix(base, d)
                     /\ Len(d) - Len(base) <= max_depth
                     /\ RepoAt(fs, d).exc = NoExc}

\* the search can walk from base down to d: every directory on the way can
\* be listed and no name on the way starts with a dot
Walkable(fs, base, d) ==
    /\ \A a \in fs.dirs : (IsPrefix(base, a) /\ Ancestor(a, d)) => a \notin fs.unreadable
    /\ \A i \in (Len(base) + 1)..Len(d) : ~StartsWithDot(d[i])

\* the list holds all and only the candidates that do not lie inside
\* another returned repository, each once
AllAndOnly(list, candidates) ==
    /\ Injective(list)
    /\ Range(list) \subseteq candidates
    /\ \A d \in Range(list) : \A r \in Range(list) : ~Ancestor(r, d)
    /\ \A d \in candidates \ Range(list) : \E r \in Range(list) : Ancestor(r, d)

\* discover_repos_in_directory returned a list
Discovered == op = "discover_repos_in_directory" /\ result.exc = NoExc

\* C26 as stated: discover_repos_in_directory(base, max_depth) returns all
\* and only the directories at depth <= max_depth below base that resolve as
\* repositories and do not lie inside another returned repository.
C26_AllRepositories ==
    Discovered =>
        AllAndOnly(result.val, Candidates(world, args.base_path, args.max_depth))

\* C26: discover_repos_in_directory(base, max_depth) returns all and only
\* the directories at depth <= max_depth below base that resolve as
\* repositories, that the search can walk to (no directory name below base
\* on the way starts with a dot, every directory above them can be listed)
\* and that do not lie inside another returned repository; no returned path
\* is an ancestor of another and none is deeper than max_depth.
C26_AllWalkableRepositories ==
    Discovered =>
        /\ AllAndOnly(result.val,
                      {d \in Candidates(world, args.base_path, args.max_depth) :
                           Walkable(world, args.base_path, d)})
        /\ \A d \in Range(result.val) : Len(d) - Len(args.base_path) <= args.max_depth
        /\ \A d \in Range(result.val) : \A r \in Range(result.val) : ~Ancestor(r, d)

\* a repository holds another repository within the depth limit: the outer
\* one was returned, the inner one was not
C26_Witness ==
    /\ Discovered
    /\ \E r \in Range(result.val) :
           \E d \in Candidates(world, args.base_path, args.max_depth) :
               Ancestor(r, d) /\ d \notin Range(result.val)

\* ------------------------------------------------------------------ C27
\* the commits of the logs a returned entry was built from
Sources(entry) ==
    {c \in UNION {Range(world.log[r]) : r \in DOMAIN world.log} :
        /\ StrippedMessage(c) # <<>>
        /\ MakeCommitInfo(c).hash = entry.hash
        /\ MakeCommitInfo(c).author = entry.author
        /\ MakeCommitInfo(c).date = entry.date
        /\ MakeCommitInfo(c).message = entry.message}

\* the minute the commit instant falls in
InstantMinute(c) == c.epoch \div 60

\* C27: in the result of get_commits_from_multiple_repos, for commits whose
\* committer times carry any UTC offsets, a commit whose commit instant
\* falls in a later minute never appears after a commit whose instant falls
\* in an earlier minute.
C27_ChronologicalToTheMinute ==
    (MultiDone /\ result.exc = NoExc) =>
        \A i, j \in DOMAIN result.val :
            i < j =>
                \A ci \in Sources(result.val[i]), cj \in Sources(result.val[j]) :
                    InstantMinute(cj) <= InstantMinute(ci)

\* ------------------------------------------------------------------ C28
\* the patterns a call consults
Consulted(patterns) == IF patterns = NonePatterns THEN <<1, 2, 3, 4>> ELSE patterns

\* the positions, in the consulted list, of the patterns that match the message
MatchingOf(patterns, message) ==
    {i \in DOMAIN Consulted(patterns) : Search(Consulted(patterns)[i], message).found}

\* C28 (as claimed): group_commits_by_ticket partitions its input: the
\* unmatched list is the input commits that no pattern matches, each group is
\* the input commits that a pattern matches and whose upper-cased extracted
\* id is the group's id, both in input order, every commit that a pattern
\* matches has its group, and no two groups share an id.
C28_Partition ==
    op = "group_commits_by_ticket" =>
        LET grouped == result.val.grouped
            unmatched == result.val.unmatched
            commits_info == args.commits_info
            Matched(c) == MatchingOf(args.patterns, c.message) # {}
            IdOf(c) == Upper(extract_ticket_from_message(c.message, args.patterns))
        IN  /\ result.exc = NoExc
            /\ unmatched = SelectSeq(commits_info, LAMBDA c : ~Matched(c))
            /\ \A i \in DOMAIN grouped :
                   grouped[i].commits =
                       SelectSeq(commits_info,
                                 LAMBDA c : Matched(c) /\ IdOf(c) = grouped[i].ticket_id)
            /\ \A i \in DOMAIN commits_info :
                   Matched(commits_info[i]) =>
                       \E j \in DOMAIN grouped : grouped[j].ticket_id = IdOf(commits_info[i])
            /\ \A i, j \in DOMAIN grouped :
                   grouped[i].ticket_id = grouped[j].ticket_id => i = j

\* ------------------------------------------------------------------ C29
\* C29 (as claimed): with a supplied pattern list, extract_ticket_from_message
\* consults the supplied patterns only; for the first of them that matches it
\* returns the first group if the pattern has groups and the whole match
\* otherwise; it returns none only if no supplied pattern matches.
C29_SuppliedPatternsOnly ==
    (op = "extract_ticket_from_message" /\ args.patterns # NonePatterns) =>
        LET found == MatchingOf(args.patterns, args.message)
            first == CHOOSE i \in found : \A j \in found : i <= j
            match == Search(args.patterns[first], args.message)
        IN  /\ result.exc = NoExc
            /\ found = {} => result.val = NoneStr
            /\ found # {} =>
                   /\ result.val = (IF match.groups # <<>> THEN match.groups[1]
                                    ELSE match.whole)
                   /\ result.val # NoneStr

\* ---------------------------------------------------------- cli/handlers.py
\* how many commits the log read by the team reports holds
MaxTeamLog == 2

RECURSIVE CollectByAuthor(_, _, _, _, _)
\* for author in authors:
\*     commits_info = get_commits_detailed(".", since, until, author)
\*     if commits_info: commits_by_author[author] = commits_info; all_commits_info.extend(...)
\* here is the working directory of the process, which "." names
CollectByAuthor(here, since, until, authors, st) ==
    IF authors = <<>> THEN Ok(st)
    ELSE LET author == Head(authors)
             commits_info == get_commits_detailed(here, since, until, author)
         IN  IF commits_info.exc # NoExc THEN commits_info
             ELSE CollectByAuthor(here, since, until, Tail(authors),
                      IF commits_info.val = <<>> THEN st
                      ELSE [commits_by_author |->
                                Append(st.commits_by_author,
                                       [author |-> author, commits |-> commits_info.val]),
                            all_commits_info |->
                                st.all_commits_info \o commits_info.val])

\* def generate_team_report(since, until, report_type, summarize=False):
\* the tables printed, one per author in the order of authors, and the
\* commits handed to the summary; typer.Exit when there is nothing to print
generate_team_report(here, since, until) ==
    LET authors == get_all_authors(here, since, until)
    IN  IF authors.exc # NoExc THEN authors
        ELSE IF authors.val = <<>> THEN Raise("Exit")
        ELSE LET collected == CollectByAuthor(here, since, until, authors.val,
                                  [commits_by_author |-> <<>>, all_commits_info |-> <<>>])
             IN  IF collected.exc # NoExc THEN collected
                 ELSE IF collected.val.all_commits_info = <<>> THEN Raise("Exit")
                 ELSE collected

\* def generate_custom_range_team_report(since, until, period_desc, summarize):
\* the heading is printed first, the collection and the tables are the same
generate_custom_range_team_report(here, since, until) ==
    LET authors == get_all_authors(here, since, until)
    IN  IF authors.exc # NoExc THEN authors
        ELSE IF authors.val = <<>> THEN Raise("Exit")
        ELSE LET collected == CollectByAuthor(here, since, until, authors.val,
                                  [commits_by_author |-> <<>>, all_commits_info |-> <<>>])
             IN  IF collected.exc # NoExc THEN collected
                 ELSE IF collected.val.all_commits_info = <<>> THEN Raise("Exit")
                 ELSE collected

\* commits of the repository the team reports read: three authors, a
\* lower-case namesake of the first, an author named "me", and a merge
TeamPool ==
    { Commit(Sha("a", "0"), Actor(NameAme, MailA), FALSE, <<"a", "b">>,
             Day + 600, 0, 1, NoDiffs),
      Commit(Sha("b", "0"), Actor(NameBea, MailB), FALSE, <<"b">>,
             Day + 700, 0, 1, NoDiffs),
      Commit(Sha("c", "0"), Actor(NameLower, MailA), FALSE, <<"c">>,
             Day + 800, 0, 1, NoDiffs),
      Commit(Sha("d", "0"), Actor(Me, MailB), FALSE, <<"d">>,
             Day + 7200, 0, 1, NoDiffs),
      Commit(Sha("e", "0"), Actor(<<"C", "y">>, MailB), FALSE, <<"e">>,
             Day + 900, 0, 1, NoDiffs),
      Commit(Sha("f", "0"), Actor(NameBea, MailB), FALSE, <<"f">>,
             Day + 1000, 0, 2, NoDiffs) }

TeamWorlds ==
    { [log |-> [r \in Logged |-> IF r = ProjA THEN a ELSE LibLog], user |-> u] :
      a \in Logs(TeamPool, MaxTeamLog), u \in {NameBea, NoValue} }

\* the directories the reports are started in: "proj", "tmp"
TeamDirs == { Path(FALSE, <<"proj">>), Path(FALSE, <<"tmp">>) }

InitTeam ==
    /\ world \in TeamWorlds
    /\ op = "none"
    /\ args = NoArgs
    /\ result = Ok(<<>>)

\* a run of generate_team_report(since, until, report_type)
CallTeamReport ==
    \E here \in TeamDirs, w \in Windows :
        /\ op = "none"
        /\ op' = "generate_team_report"
        /\ args' = [NoArgs EXCEPT !.repo_path = here, !.since = w.since, !.until = w.until]
        /\ result' = generate_team_report(here, w.since, w.until)
        /\ UNCHANGED world

\* a run of generate_custom_range_team_report(since, until, period_desc, summarize)
CallCustomRangeTeamReport ==
    \E here \in TeamDirs, w \in Windows :
        /\ op = "none"
        /\ op' = "generate_custom_range_team_report"
        /\ args' = [NoArgs EXCEPT !.repo_path = here, !.since = w.since, !.until = w.until]
        /\ result' = generate_custom_range_team_report(here, w.since, w.until)
        /\ UNCHANGED world

NextTeam == CallTeamReport \/ CallCustomRangeTeamReport \/ Return

SpecTeam == InitTeam /\ [][NextTeam]_vars

\* ------------------------------------------------------------------ C30
TeamReports == {"generate_team_report", "generate_custom_range_team_report"}

\* the commits of the window: non-merge commits of the repository the report
\* is started in, between since and until
WrittenInWindow ==
    {c \in Range(world.log[ProjA]) :
        c.parents < 2 /\ args.since <= c.epoch /\ c.epoch <= args.until}

RECURSIVE TableSizes(_)
\* the sum of the per-author commit counts
TableSizes(tables) ==
    IF tables = <<>> THEN 0 ELSE Len(Head(tables).commits) + TableSizes(Tail(tables))

\* C30 (as claimed): in the team reports every commit of the window is
\* collected under exactly one author, the one who wrote it: each commit of
\* an author's table carries that author's name, no commit is in the tables
\* of two authors, and the per-author counts sum to the number of distinct
\* commits of the window.
C30_OneAuthorPerCommit ==
    (op \in TeamReports /\ result.exc = NoExc) =>
        LET tables == result.val.commits_by_author
        IN  /\ \A i \in DOMAIN tables : \A k \in DOMAIN tables[i].commits :
                   tables[i].commits[k].author = tables[i].author
            /\ \A i, j \in DOMAIN tables :
                   i # j => \A k \in DOMAIN tables[i].commits :
                                \A l \in DOMAIN tables[j].commits :
                                    tables[i].commits[k].hash # tables[j].commits[l].hash
            /\ TableSizes(tables) = Cardinality(WrittenInWindow)

====
